---- MODULE Spec2Model ----
(***************************************************************************)
(* Functions over external dictionaries                                    *)
(* (dbms/src/Functions/FunctionsExternalDictionaries.h): dictHas,          *)
(* dictGet<T>, dictGet<T>OrDefault, dictGetString(OrDefault), the          *)
(* type-erased dictGet / dictGetOrDefault, dictGetHierarchy and dictIsIn,  *)
(* evaluated over one block of columns.                                    *)
(***************************************************************************)
EXTENDS Integers, Sequences, FiniteSets, TLC

(***************************************************************************)
(* Bounds of the model.                                                    *)
(***************************************************************************)
\* dictionary keys of the enumerated dictionaries are 0..MaxKey
MaxKey == 2
\* a block holds at most MaxRows rows
MaxRows == 2
\* the ghost counter of bulk toParent calls saturates here
MaxCalls == 16

VARIABLES
    dictionaries,   \* the registry (ExternalDictionaries): loaded name -> handle
    fn,             \* name of the function being evaluated
    impl,           \* type-erased functions: the executor selected, "null" if unset
    block,          \* [args, result]: the argument columns and the result column
    pc,             \* position of the evaluation
    err,            \* error code raised by the evaluation, "none" if none
    calls,          \* the calls made to the registry and to the backend, in order
    probed,         \* the probes the dispatcher made, in order
    entered,        \* the probes whose typeid_cast succeeded (their body ran)
    in_array,       \* get_hierarchies: current ids, one per row
    out_array,      \* get_hierarchies: the buffer toParent writes to
    hierarchies,    \* get_hierarchies: the chain of every row
    total_count,    \* get_hierarchies: number of ids stored so far
    all_zeroes,     \* get_hierarchies: no row stored an id in this round
    n_toParent,     \* ghost: bulk toParent calls made (saturates at MaxCalls)
    prev_result,    \* result column of the previous function of the query
    threads         \* threads calling one shared function object: each one's call

vars == <<dictionaries, fn, impl, block, pc, err, calls, probed, entered, in_array,
          out_array, hierarchies, total_count, all_zeroes, n_toParent, prev_result,
          threads>>

walk_vars == <<in_array, out_array, hierarchies, total_count, all_zeroes, n_toParent>>

(***************************************************************************)
(* Columns.                                                                *)
(***************************************************************************)
Range(s) == {s[i] : i \in 1..Len(s)}

NoColumn == [kind |-> "none"]

Vector(type, data) == [kind |-> "vector", type |-> type, data |-> data]

Const(type, value, size) == [kind |-> "const", type |-> type, value |-> value, size |-> size]

ColumnArray(data, offsets) ==
    [kind |-> "array", type |-> "Array(UInt64)", data |-> data, offsets |-> offsets]

\* IColumn::size()
Size(col) ==
    CASE col.kind = "vector" -> Len(col.data)
      [] col.kind = "const" -> col.size
      [] col.kind = "array" -> Len(col.offsets)
      [] col.kind = "tuple" -> Len(col.columns[1].data)
      [] OTHER -> 0

\* checkAndGetColumnConst<ColumnString>
IsConstString(col) == col.kind = "const" /\ col.type = "String"

\* checkAndGetColumn<ColumnUInt64>
IsVectorUInt64(col) == col.kind = "vector" /\ col.type = "UInt64"

\* checkAndGetColumnConst<ColumnVector<UInt64>>
IsConstUInt64(col) == col.kind = "const" /\ col.type = "UInt64"

(***************************************************************************)
(* The dictionary backends (Dictionaries/*.h), through their contract.  A  *)
(* handle is [kind, hasHierarchy, attributes, keys, data, parent]: keys is *)
(* the set of stored keys, data[attr][key] the stored value, parent[id]    *)
(* what toParent answers for id.                                           *)
(***************************************************************************)
SimpleKinds == <<"FlatDictionary", "HashedDictionary", "CacheDictionary">>

ComplexKinds == <<"ComplexKeyHashedDictionary", "ComplexKeyCacheDictionary", "TrieDictionary">>

RangeKinds == <<"RangeHashedDictionary">>

\* T(): the default-constructed value of the attribute type
Zero(type) == IF type = "String" THEN "" ELSE 0


\* ColumnVector<T>::create(n): n elements, each overwritten by the backend
Create(type, n) == [i \in 1..n |-> Zero(type)]

\* an element of a ColumnVector<T>::create(n) buffer that nothing wrote yet
Indeterminate == -1

\* what such an element can turn out to hold when the column is read
JunkValues == {0, 1}

\* ColumnVector<T>::create(n) as the range accessor gets it: it writes one
\* element per id it is handed, the others stay as allocated
Uninitialized(type, n) == IF type = "String" THEN <<>> ELSE [i \in 1..n |-> Indeterminate]

\* a value the accessor computed from an element it read past the end of a
\* sequence it was handed
Unknown(type) == IF type = "String" THEN "indeterminate" ELSE Indeterminate

\* junk[i] as a value of the type
Junk(type, j) == IF type # "String" THEN j ELSE IF j = 0 THEN Zero(type) ELSE "junk"

\* the column as a reader finds it: junk[i] where row i was never written or
\* was computed from an element past the end
Settled(col, junk) ==
    IF col.kind = "vector"
    THEN Vector(col.type, [i \in 1..Len(col.data) |->
                              IF col.data[i] = Unknown(col.type)
                              THEN Junk(col.type, junk[i]) ELSE col.data[i]])
    ELSE col

\* the output buffer handed to an accessor: n elements, empty for getString
OutBuffer(type, n) == IF type = "String" THEN <<>> ELSE Create(type, n)

\* the value the backend finds for a key, or the given default on a miss
Lookup(dict, attr, key, def) == IF key \in dict.keys THEN dict.data[attr][key] ELSE def

\* IDictionary::has(ids, out): one flag per key, written into out
Has(dict, ids, out) ==
    [i \in 1..Len(out) |->
        IF i <= Len(ids) THEN (IF ids[i] \in dict.keys THEN 1 ELSE 0) ELSE out[i]]

\* a numeric accessor writes out[row] for every key; getString appends to out
Fill(type, values, out) ==
    IF type = "String" THEN out \o values
    ELSE [i \in 1..Len(out) |-> IF i <= Len(values) THEN values[i] ELSE out[i]]

\* get<T>(attr, ids, out): the stored value, the attribute's null value on a miss
Get(dict, type, attr, ids, out) ==
    Fill(type, [i \in 1..Len(ids) |-> Lookup(dict, attr, ids[i], Zero(type))], out)

\* get<T>(attr, ids, defs, out) with one default per row
GetOrDefaultVector(dict, type, attr, ids, defs, out) ==
    Fill(type, [i \in 1..Len(ids) |-> Lookup(dict, attr, ids[i], defs[i])], out)

\* get<T>(attr, ids, def, out) with one default for all rows
GetOrDefaultConst(dict, type, attr, ids, def, out) ==
    Fill(type, [i \in 1..Len(ids) |-> Lookup(dict, attr, ids[i], def)], out)

\* get<T>(attr, ids, dates, out) of a range dictionary: the key is (id, date)
\* one row per id; dates[i] of a row past the end of dates is not a value of
\* the block
GetRange(dict, type, attr, ids, dates, out) ==
    Fill(type, [i \in 1..Len(ids) |->
                   IF i <= Len(dates)
                   THEN Lookup(dict, attr, <<ids[i], dates[i]>>, Zero(type))
                   ELSE Unknown(type)],
         out)

\* IDictionary::toParent(ids, out): one parent per row, written into out
ToParent(dict, ids, out) ==
    [i \in 1..Len(out) |-> IF i <= Len(ids) THEN dict.parent[ids[i]] ELSE out[i]]

RECURSIVE IsInWalk(_, _, _, _)
\* the backend's ancestor test: walk the parent chain of id up to the sentinel,
\* stopping at an id seen before
IsInWalk(dict, id, ancestor, seen) ==
    IF id = 0 \/ id \in seen THEN 0
    ELSE IF id = ancestor THEN 1
    ELSE IsInWalk(dict, dict.parent[id], ancestor, seen \cup {id})

\* isInVectorVector(child_ids, ancestor_ids, out): one flag per row
IsInVectorVector(dict, child_ids, ancestor_ids, out) ==
    [i \in 1..Len(out) |-> IsInWalk(dict, child_ids[i], ancestor_ids[i], {})]

\* isInVectorConstant(child_ids, ancestor_id, out)
IsInVectorConstant(dict, child_ids, ancestor_id, out) ==
    [i \in 1..Len(out) |-> IsInWalk(dict, child_ids[i], ancestor_id, {})]

\* isInConstantVector(child_id, ancestor_ids, out)
IsInConstantVector(dict, child_id, ancestor_ids, out) ==
    [i \in 1..Len(out) |-> IsInWalk(dict, child_id, ancestor_ids[i], {})]

\* isInConstantConstant(child_id, ancestor_id, out): one flag
IsInConstantConstant(dict, child_id, ancestor_id) == IsInWalk(dict, child_id, ancestor_id, {})

\* the rows of the key columns of a tuple, as a sequence of keys
TupleKeys(key_columns) ==
    [i \in 1..Len(key_columns[1].data) |->
        [c \in 1..Len(key_columns) |-> key_columns[c].data[i]]]

(***************************************************************************)
(* Outcome of an evaluation step: the error raised (or "none"), the result *)
(* column if one was assigned, and the collaborator calls made.            *)
(***************************************************************************)
Ok(result, made) ==
    [err |-> "none", assigned |-> TRUE, result |-> result, calls |-> made,
     walk |-> FALSE, in |-> <<>>]

\* mutation: the result column is assigned before the throw
RaiseAssigned(code, made) ==
    [err |-> code, assigned |-> TRUE, result |-> Vector("UInt8", <<>>), calls |-> made,
     walk |-> FALSE, in |-> <<>>]

Raise(code, made) ==
    [err |-> code, assigned |-> FALSE, result |-> NoColumn, calls |-> made,
     walk |-> FALSE, in |-> <<>>]

Call(op, keys) == [op |-> op, keys |-> keys]

\* the call of a range accessor: the ids, the dates and the size of out
RangeCall(ids, dates, out) == [op |-> "get", keys |-> ids, dates |-> dates, out |-> Len(out)]

\* the outcome of a call of an attribute accessor: the backend looks the
\* attribute up by name (BAD_ARGUMENTS if the structure has none) and compares
\* its declared type with the accessor's (TYPE_MISMATCH) before it fills result
Fetched(dict, type, attr, result, made) ==
    LET named == {i \in DOMAIN dict.attributes : dict.attributes[i].name = attr} IN
    IF named = {} THEN Raise("BAD_ARGUMENTS", made)
    ELSE IF \E i \in named : dict.attributes[i].type # type THEN Raise("TYPE_MISMATCH", made)
    ELSE Ok(result, made)

\* typeid_cast<const DictionaryType *>(dictionary): the exact concrete type
TypeidCast(dict, type) == dict.kind = type

Probe(method, type) == [method |-> method, type |-> type]

ProbesOf(method, kinds) == [i \in 1..Len(kinds) |-> Probe(method, kinds[i])]

(***************************************************************************)
(* dictHas                                                                 *)
(***************************************************************************)
\* mutation: the flags of the first key only, as a constant-id path would do
HasDispatchSimpleFirstKey(dict, blk) ==
    LET id_col == blk.args[2] IN
    IF IsVectorUInt64(id_col)
    THEN LET ids == <<id_col.data[1]>>
         IN Ok(Vector("UInt8", Has(dict, ids, Create("UInt8", 1))), <<Call("has", ids)>>)
    ELSE Raise("ILLEGAL_COLUMN", <<>>)

\* FunctionDictHas::executeDispatchSimple, after the typeid_cast
HasDispatchSimple(dict, blk) ==
    LET id_col == blk.args[2] IN
    IF IsVectorUInt64(id_col)
    THEN LET ids == id_col.data
             out == Create("UInt8", Len(ids))
         IN Ok(Vector("UInt8", Has(dict, ids, out)), <<Call("has", ids)>>)
    ELSE Raise("ILLEGAL_COLUMN", <<>>)

\* FunctionDictHas::executeDispatchComplex, after the typeid_cast
HasDispatchComplex(dict, blk) ==
    LET key_col == blk.args[2] IN
    IF key_col.kind = "tuple"
    THEN LET keys == TupleKeys(key_col.columns)
             out == Create("UInt8", Size(key_col))
         IN Ok(Vector("UInt8", Has(dict, keys, out)), <<Call("has", keys)>>)
    ELSE Raise("TYPE_MISMATCH", <<>>)

(***************************************************************************)
(* dictGet<T>OrDefault and dictGetStringOrDefault (type = the attribute    *)
(* type T of the instantiation, "String" for the string variant)           *)
(***************************************************************************)
\* checkAndGetColumn<ColumnVector<T>> / checkAndGetColumn<ColumnString>
IsVectorOf(type, col) == col.kind = "vector" /\ col.type = type

\* checkAndGetColumnConst<ColumnVector<T>> / checkAndGetColumnConstStringOrFixedString
IsConstOf(type, col) ==
    /\ col.kind = "const"
    /\ \/ col.type = type
       \/ type = "String" /\ col.type = "FixedString"

\* mutation: a vector of defaults read as one default, that of the first row
OrDefaultVectorIdsFirstDefault(type, dict, blk) ==
    LET attr == blk.args[2].value
        ids == blk.args[3].data
        default_col == blk.args[4]
    IN IF IsVectorOf(type, default_col) \/ IsConstOf(type, default_col)
       THEN Fetched(dict, type, attr, Vector(type, GetOrDefaultConst(dict, type, attr, ids,
                                              IF default_col.kind = "const"
                                              THEN default_col.value ELSE default_col.data[1],
                                              OutBuffer(type, Len(ids)))),
               <<Call("getOrDefault", ids)>>)
       ELSE Raise("ILLEGAL_COLUMN", <<>>)

\* executeDispatch(..., const ColumnUInt64 * id_col): vector ids
OrDefaultVectorIds(type, dict, blk) ==
    LET attr == blk.args[2].value
        ids == blk.args[3].data
        default_col == blk.args[4]
    IN IF IsVectorOf(type, default_col)
       THEN Fetched(dict, type, attr,
                    Vector(type, GetOrDefaultVector(dict, type, attr, ids, default_col.data,
                                               OutBuffer(type, Len(ids)))),
               <<Call("getOrDefault", ids)>>)
       ELSE IF IsConstOf(type, default_col)
       THEN Fetched(dict, type, attr,
                    Vector(type, GetOrDefaultConst(dict, type, attr, ids, default_col.value,
                                              OutBuffer(type, Len(ids)))),
               <<Call("getOrDefault", ids)>>)
       ELSE Raise("ILLEGAL_COLUMN", <<>>)

\* mutation: a constant id with a vector default answers a miss with T(), not
\* with the default column
OrDefaultConstIdNoReuse(type, dict, blk) ==
    LET attr == blk.args[2].value
        id_col == blk.args[3]
        default_col == blk.args[4]
        ids == <<id_col.value>>
    IN IF IsVectorOf(type, default_col)
       THEN Fetched(dict, type, attr,
                    Const(type, GetOrDefaultConst(dict, type, attr, ids, Zero(type),
                                             OutBuffer(type, 1))[1], id_col.size),
               <<Call("has", ids), Call("getOrDefault", ids)>>)
       ELSE IF IsConstOf(type, default_col)
       THEN Fetched(dict, type, attr,
                    Const(type, GetOrDefaultConst(dict, type, attr, ids, default_col.value,
                                             OutBuffer(type, 1))[1], id_col.size),
               <<Call("getOrDefault", ids)>>)
       ELSE Raise("ILLEGAL_COLUMN", <<>>)

\* mutation: a constant id with a constant default checks existence first, as
\* the vector-default branch does
OrDefaultConstIdAlwaysHas(type, dict, blk) ==
    LET attr == blk.args[2].value
        id_col == blk.args[3]
        default_col == blk.args[4]
        ids == <<id_col.value>>
    IN IF IsVectorOf(type, default_col) \/ IsConstOf(type, default_col)
       THEN LET flags == Has(dict, ids, Create("UInt8", 1)) IN
            IF flags[1] # 0
            THEN Fetched(dict, type, attr,
                         Const(type, GetOrDefaultConst(dict, type, attr, ids, Zero(type),
                                                  OutBuffer(type, 1))[1], id_col.size),
                    <<Call("has", ids), Call("getOrDefault", ids)>>)
            ELSE Ok(default_col, <<Call("has", ids)>>)
       ELSE Raise("ILLEGAL_COLUMN", <<>>)

\* executeDispatch(..., const ColumnConst * id_col): a constant id
OrDefaultConstId(type, dict, blk) ==
    LET attr == blk.args[2].value
        id_col == blk.args[3]
        default_col == blk.args[4]
        ids == <<id_col.value>>
    IN IF IsVectorOf(type, default_col)
       THEN LET flags == Has(dict, ids, Create("UInt8", 1)) IN
            IF flags[1] # 0
            THEN Fetched(dict, type, attr,
                         Const(type, GetOrDefaultConst(dict, type, attr, ids, Zero(type),
                                                  OutBuffer(type, 1))[1], id_col.size),
                    <<Call("has", ids), Call("getOrDefault", ids)>>)
            ELSE Ok(default_col, <<Call("has", ids)>>)
       ELSE IF IsConstOf(type, default_col)
       THEN Fetched(dict, type, attr,
                    Const(type, GetOrDefaultConst(dict, type, attr, ids, default_col.value,
                                             OutBuffer(type, 1))[1], id_col.size),
               <<Call("getOrDefault", ids)>>)
       ELSE Raise("ILLEGAL_COLUMN", <<>>)

\* executeDispatch<DictionaryType>, after the typeid_cast
OrDefaultDispatch(type, dict, blk) ==
    IF ~IsConstString(blk.args[2]) THEN Raise("ILLEGAL_COLUMN", <<>>)
    ELSE IF IsVectorUInt64(blk.args[3]) THEN OrDefaultVectorIds(type, dict, blk)
    ELSE IF IsConstUInt64(blk.args[3]) THEN OrDefaultConstId(type, dict, blk)
    ELSE Raise("ILLEGAL_COLUMN", <<>>)

\* IColumn::convertToFullColumnIfConst of a key column
ConvertToFullColumnIfConst(col) ==
    IF col.kind = "const" /\ col.type = "Tuple"
    THEN [kind |-> "tuple", type |-> "Tuple",
          columns |-> [c \in 1..Len(col.value) |->
                          Vector("UInt64", [i \in 1..col.size |-> col.value[c]])]]
    ELSE IF col.kind = "const"
    THEN Vector(col.type, [i \in 1..col.size |-> col.value])
    ELSE col

\* executeDispatchComplex<DictionaryType>, after the typeid_cast
OrDefaultDispatchComplex(type, dict, blk) ==
    IF ~IsConstString(blk.args[2]) THEN Raise("ILLEGAL_COLUMN", <<>>)
    ELSE LET attr == blk.args[2].value
             key_col == ConvertToFullColumnIfConst(blk.args[3])
             default_col == blk.args[4]
         IN IF key_col.kind # "tuple" THEN Raise("BAD_CAST", <<>>)
            ELSE LET keys == TupleKeys(key_col.columns)
                     out == OutBuffer(type, Size(key_col))
                 IN IF IsVectorOf(type, default_col)
                    THEN Fetched(dict, type, attr,
                                 Vector(type, GetOrDefaultVector(dict, type, attr, keys,
                                                            default_col.data, out)),
                            <<Call("getOrDefault", keys)>>)
                    ELSE IF IsConstOf(type, default_col)
                    THEN Fetched(dict, type, attr,
                                 Vector(type, GetOrDefaultConst(dict, type, attr, keys,
                                                           default_col.value, out)),
                            <<Call("getOrDefault", keys)>>)
                    ELSE Raise("ILLEGAL_COLUMN", <<>>)

(***************************************************************************)
(* dictGet<T> and dictGetString                                            *)
(***************************************************************************)
\* getColumnDataAsPaddedPODArray<T>(column, backup_storage)
GetColumnDataAsPaddedPODArray(type, column) ==
    IF column.kind = "vector" /\ column.type = type THEN column.data
    ELSE IF column.kind = "const" /\ column.type = type THEN <<column.value>>
    ELSE IF column.kind = "const" THEN [i \in 1..column.size |-> column.value]
    ELSE column.data

\* mutation: the number of arguments is not tested
GetDispatchAnyArity(type, dict, blk) ==
    IF ~IsConstString(blk.args[2]) THEN Raise("ILLEGAL_COLUMN", <<>>)
    ELSE LET attr == blk.args[2].value
             id_col == blk.args[3]
         IN IF IsVectorUInt64(id_col)
            THEN Fetched(dict, type, attr,
                         Vector(type, Get(dict, type, attr, id_col.data,
                                          OutBuffer(type, Size(id_col)))),
                         <<Call("get", id_col.data)>>)
            ELSE IF type # "String" /\ IsConstUInt64(id_col)
            THEN Fetched(dict, type, attr,
                         Const(type, Get(dict, type, attr, <<id_col.value>>,
                                         Create(type, 1))[1], id_col.size),
                         <<Call("get", <<id_col.value>>)>>)
            ELSE Raise("ILLEGAL_COLUMN", <<>>)

\* executeDispatch<DictionaryType>, after the typeid_cast
GetDispatch(type, dict, blk) ==
    IF Len(blk.args) # 3 THEN Raise("NUMBER_OF_ARGUMENTS_DOESNT_MATCH", <<>>)
    ELSE IF ~IsConstString(blk.args[2]) THEN Raise("ILLEGAL_COLUMN", <<>>)
    ELSE LET attr == blk.args[2].value
             id_col == blk.args[3]
         IN IF IsVectorUInt64(id_col)
            THEN Fetched(dict, type, attr, Vector(type, Get(dict, type, attr, id_col.data,
                                     OutBuffer(type, Size(id_col)))),
                    <<Call("get", id_col.data)>>)
            ELSE IF type # "String" /\ IsConstUInt64(id_col)
            THEN Fetched(dict, type, attr, Const(type, Get(dict, type, attr, <<id_col.value>>,
                                    Create(type, 1))[1], id_col.size),
                    <<Call("get", <<id_col.value>>)>>)
            ELSE Raise("ILLEGAL_COLUMN", <<>>)

\* executeDispatchComplex<DictionaryType>, after the typeid_cast
GetDispatchComplex(type, dict, blk) ==
    IF Len(blk.args) # 3 THEN Raise("NUMBER_OF_ARGUMENTS_DOESNT_MATCH", <<>>)
    ELSE IF ~IsConstString(blk.args[2]) THEN Raise("ILLEGAL_COLUMN", <<>>)
    ELSE LET attr == blk.args[2].value
             key_col == ConvertToFullColumnIfConst(blk.args[3])
         IN IF key_col.kind = "tuple"
            THEN LET keys == TupleKeys(key_col.columns)
                 IN Fetched(dict, type, attr, Vector(type, Get(dict, type, attr, keys,
                                        OutBuffer(type, Size(key_col.columns[1])))),
                       <<Call("get", keys)>>)
            ELSE Raise("TYPE_MISMATCH", <<>>)

\* IColumn::getUInt is implemented by the column (the conversion loop can run)
SupportsGetUInt(type, column) ==
    \/ column.type \notin {"Tuple", "String"}
    \/ column.kind \in {"vector", "const"} /\ column.type = type

\* executeDispatchRange<DictionaryType>, after the typeid_cast
GetDispatchRange(type, dict, blk) ==
    IF Len(blk.args) # 4 THEN Raise("NUMBER_OF_ARGUMENTS_DOESNT_MATCH", <<>>)
    ELSE IF ~IsConstString(blk.args[2]) THEN Raise("ILLEGAL_COLUMN", <<>>)
    ELSE IF ~SupportsGetUInt("UInt64", blk.args[3]) \/ ~SupportsGetUInt("Int64", blk.args[4])
    THEN Raise("NOT_IMPLEMENTED", <<>>)
    ELSE LET attr == blk.args[2].value
             id_col_values == GetColumnDataAsPaddedPODArray("UInt64", blk.args[3])
             range_col_values == GetColumnDataAsPaddedPODArray("Int64", blk.args[4])
             out == Uninitialized(type, Size(blk.args[3]))
         IN Fetched(dict, type, attr,
                    Vector(type, GetRange(dict, type, attr, id_col_values, range_col_values,
                                          out)),
                    <<RangeCall(id_col_values, range_col_values, out)>>)

(***************************************************************************)
(* dictIsIn                                                                *)
(***************************************************************************)
\* execute(..., const ColumnUInt64 * child_id_col, ancestor_id_col_untyped)
IsInExecuteVector(dict, child_id_col, ancestor_id_col) ==
    LET child_ids == child_id_col.data
        size == Size(child_id_col)
    IN IF IsVectorUInt64(ancestor_id_col)
       THEN Ok(Vector("UInt8", IsInVectorVector(dict, child_ids, ancestor_id_col.data,
                                                Create("UInt8", size))),
               <<Call("isInVectorVector", child_ids)>>)
       ELSE IF IsConstUInt64(ancestor_id_col)
       THEN Ok(Vector("UInt8", IsInVectorConstant(dict, child_ids, ancestor_id_col.value,
                                                  Create("UInt8", size))),
               <<Call("isInVectorConstant", child_ids)>>)
       ELSE Raise("ILLEGAL_COLUMN", <<>>)

\* mutation: two constants answered through the constant/vector entry point,
\* with a full column
IsInExecuteConstFull(dict, child_id_col, ancestor_id_col) ==
    LET child_id == child_id_col.value
        size == Size(child_id_col)
        ancestor_ids == IF ancestor_id_col.kind = "const"
                        THEN [i \in 1..size |-> ancestor_id_col.value]
                        ELSE ancestor_id_col.data
    IN IF IsVectorUInt64(ancestor_id_col) \/ IsConstUInt64(ancestor_id_col)
       THEN Ok(Vector("UInt8", IsInConstantVector(dict, child_id, ancestor_ids,
                                                  Create("UInt8", size))),
               <<Call("isInConstantVector", <<child_id>>)>>)
       ELSE Raise("ILLEGAL_COLUMN", <<>>)

\* execute(..., const ColumnConst * child_id_col, ancestor_id_col_untyped)
IsInExecuteConst(dict, child_id_col, ancestor_id_col) ==
    LET child_id == child_id_col.value
        size == Size(child_id_col)
    IN IF IsVectorUInt64(ancestor_id_col)
       THEN Ok(Vector("UInt8", IsInConstantVector(dict, child_id, ancestor_id_col.data,
                                                  Create("UInt8", size))),
               <<Call("isInConstantVector", <<child_id>>)>>)
       ELSE IF IsConstUInt64(ancestor_id_col)
       THEN Ok(Const("UInt8", IsInConstantConstant(dict, child_id, ancestor_id_col.value),
                     size),
               <<Call("isInConstantConstant", <<child_id>>)>>)
       ELSE Raise("ILLEGAL_COLUMN", <<>>)

\* executeDispatch<DictionaryType>, after the typeid_cast
IsInDispatch(dict, blk) ==
    IF ~dict.hasHierarchy THEN Raise("UNSUPPORTED_METHOD", <<>>)
    ELSE IF IsVectorUInt64(blk.args[2]) THEN IsInExecuteVector(dict, blk.args[2], blk.args[3])
    ELSE IF IsConstUInt64(blk.args[2]) THEN IsInExecuteConst(dict, blk.args[2], blk.args[3])
    ELSE Raise("ILLEGAL_COLUMN", <<>>)

(***************************************************************************)
(* dictGetHierarchy                                                        *)
(***************************************************************************)
\* the get_hierarchies call to make: its argument `in`
StartWalk(ids) == [err |-> "none", assigned |-> FALSE, result |-> NoColumn,
                   calls |-> <<>>, walk |-> TRUE, in |-> ids]

\* mutation: the hasHierarchy test left out
HierarchyDispatchNoCapability(dict, blk) ==
    LET id_col == blk.args[2] IN
    IF IsVectorUInt64(id_col) THEN StartWalk(id_col.data)
    ELSE IF IsConstUInt64(id_col) THEN StartWalk(<<id_col.value>>)
    ELSE Raise("ILLEGAL_COLUMN", <<>>)

\* executeDispatch<DictionaryType>, after the typeid_cast, up to get_hierarchies
HierarchyDispatch(dict, blk) ==
    LET id_col == blk.args[2] IN
    IF ~dict.hasHierarchy THEN Raise("UNSUPPORTED_METHOD", <<>>)
    ELSE IF IsVectorUInt64(id_col) THEN StartWalk(id_col.data)
    ELSE IF IsConstUInt64(id_col) THEN StartWalk(<<id_col.value>>)
    ELSE Raise("ILLEGAL_COLUMN", <<>>)

\* FOR_DICT_TYPES: the scalar types dictGet<T> is instantiated for
DictTypes == <<"UInt8", "UInt16", "UInt32", "UInt64", "Int8", "Int16", "Int32", "Int64",
               "Float32", "Float64", "Date", "DateTime", "UUID">>

\* Name::name of FunctionDictGet<DataType##T, NameDictGet##T>
GetName(type) == "dictGet" \o type

\* Name::name of FunctionDictGetOrDefault<DataType##T, NameDictGet##T##OrDefault>
OrDefaultName(type) == "dictGet" \o type \o "OrDefault"

GetFunctions == {GetName(t) : t \in Range(DictTypes) \cup {"String"}}

OrDefaultFunctions == {OrDefaultName(t) : t \in Range(DictTypes) \cup {"String"}}

\* the attribute type T of a typed function
TypeOf(f) == CHOOSE t \in Range(DictTypes) \cup {"String"} : f \in {GetName(t), OrDefaultName(t)}

\* the return type of f (getReturnTypeImpl of the typed functions)
ReturnType(f) ==
    CASE f = "dictGetHierarchy" -> "Array(UInt64)"
      [] f \in {"dictHas", "dictIsIn"} -> "UInt8"
      [] OTHER -> TypeOf(f)

\* elem.type->createColumn(): the empty column of the function's return type
EmptyColumn(f) ==
    IF f = "dictGetHierarchy" THEN ColumnArray(<<>>, <<>>)
    ELSE Vector(ReturnType(f), <<>>)

(***************************************************************************)
(* executeImpl: the checks every function starts with, and the dispatcher  *)
(***************************************************************************)
\* mutation: no function probes the range kind
ProbesWithoutRange(f) ==
    CASE f = "dictHas" ->
             ProbesOf("executeDispatchSimple", SimpleKinds)
             \o ProbesOf("executeDispatchComplex", ComplexKinds)
      [] f \in GetFunctions \cup OrDefaultFunctions ->
             ProbesOf("executeDispatch", SimpleKinds)
             \o ProbesOf("executeDispatchComplex", ComplexKinds)
      [] OTHER -> ProbesOf("executeDispatch", SimpleKinds)

\* the executeDispatch* probes of the && chain of f's executeImpl, in order
Probes(f) ==
    CASE f = "dictHas" ->
             ProbesOf("executeDispatchSimple", SimpleKinds)
             \o ProbesOf("executeDispatchComplex", ComplexKinds)
      [] f \in GetFunctions ->
             ProbesOf("executeDispatch", SimpleKinds)
             \o ProbesOf("executeDispatchComplex", ComplexKinds)
             \o ProbesOf("executeDispatchRange", RangeKinds)
      [] f \in OrDefaultFunctions ->
             ProbesOf("executeDispatch", SimpleKinds)
             \o ProbesOf("executeDispatchComplex", ComplexKinds)
      [] OTHER -> ProbesOf("executeDispatch", SimpleKinds)

\* the body of a probe whose typeid_cast succeeded
Body(f, method, dict, blk) ==
    CASE f = "dictHas" /\ method = "executeDispatchSimple" -> HasDispatchSimple(dict, blk)
      [] f = "dictHas" /\ method = "executeDispatchComplex" -> HasDispatchComplex(dict, blk)
      [] f \in GetFunctions /\ method = "executeDispatch" ->
             GetDispatch(TypeOf(f), dict, blk)
      [] f \in GetFunctions /\ method = "executeDispatchComplex" ->
             GetDispatchComplex(TypeOf(f), dict, blk)
      [] f \in GetFunctions /\ method = "executeDispatchRange" ->
             GetDispatchRange(TypeOf(f), dict, blk)
      [] f \in OrDefaultFunctions
            /\ method = "executeDispatch" -> OrDefaultDispatch(TypeOf(f), dict, blk)
      [] f \in OrDefaultFunctions
            /\ method = "executeDispatchComplex" ->
             OrDefaultDispatchComplex(TypeOf(f), dict, blk)
      [] f = "dictGetHierarchy" -> HierarchyDispatch(dict, blk)
      [] f = "dictIsIn" -> IsInDispatch(dict, blk)

RECURSIVE DispatchNoStop(_, _, _, _)
\* mutation: the chain goes on probing after a probe has returned true
DispatchNoStop(f, dict, blk, k) ==
    IF k > Len(Probes(f))
    THEN [out |-> Raise("UNKNOWN_TYPE: Unsupported dictionary type", <<>>),
          probed |-> Probes(f), entered |-> <<>>]
    ELSE LET rest == DispatchNoStop(f, dict, blk, k + 1) IN
         IF TypeidCast(dict, Probes(f)[k].type)
         THEN [out |-> Body(f, Probes(f)[k].method, dict, blk),
               probed |-> Probes(f), entered |-> <<Probes(f)[k]>> \o rest.entered]
         ELSE rest

RECURSIVE Dispatch(_, _, _, _)
\* the && chain from probe k on: stop at the first probe that returns true
Dispatch(f, dict, blk, k) ==
    IF k > Len(Probes(f))
    THEN [out |-> Raise("UNKNOWN_TYPE: Unsupported dictionary type", <<>>),
          probed |-> Probes(f), entered |-> <<>>]
    ELSE IF TypeidCast(dict, Probes(f)[k].type)
    THEN [out |-> Body(f, Probes(f)[k].method, dict, blk),
          probed |-> SubSeq(Probes(f), 1, k), entered |-> <<Probes(f)[k]>>]
    ELSE Dispatch(f, dict, blk, k + 1)

\* mutation: the dictionary is resolved before the zero-row short-circuit
ExecuteImplResolveFirst(f, dicts, blk) ==
    LET dict_name_col == blk.args[1] IN
    IF ~IsConstString(dict_name_col)
    THEN [out |-> Raise("ILLEGAL_COLUMN", <<>>), probed |-> <<>>, entered |-> <<>>]
    ELSE IF dict_name_col.value \notin DOMAIN dicts
    THEN [out |-> Raise("DICTIONARIES_WAS_NOT_LOADED",
                        <<Call("getDictionary", dict_name_col.value)>>),
          probed |-> <<>>, entered |-> <<>>]
    ELSE IF blk.rows = 0
    THEN [out |-> Ok(EmptyColumn(f), <<Call("getDictionary", dict_name_col.value)>>),
          probed |-> <<>>, entered |-> <<>>]
    ELSE LET d == Dispatch(f, dicts[dict_name_col.value], blk, 1)
         IN [d EXCEPT !.out.calls = <<Call("getDictionary", dict_name_col.value)>> \o @]

\* executeImpl(block, arguments, result, input_rows_count) of function f
ExecuteImpl(f, dicts, blk) ==
    LET dict_name_col == blk.args[1] IN
    IF ~IsConstString(dict_name_col)
    THEN [out |-> Raise("ILLEGAL_COLUMN", <<>>), probed |-> <<>>, entered |-> <<>>]
    ELSE IF blk.rows = 0
    THEN [out |-> Ok(EmptyColumn(f), <<>>), probed |-> <<>>, entered |-> <<>>]
    ELSE IF dict_name_col.value \notin DOMAIN dicts
    THEN [out |-> Raise("DICTIONARIES_WAS_NOT_LOADED",
                        <<Call("getDictionary", dict_name_col.value)>>),
          probed |-> <<>>, entered |-> <<>>]
    ELSE LET d == Dispatch(f, dicts[dict_name_col.value], blk, 1)
         IN [d EXCEPT !.out.calls = <<Call("getDictionary", dict_name_col.value)>> \o @]

(***************************************************************************)
(* get_hierarchies: the round loop of dictGetHierarchy.                    *)
(***************************************************************************)
\* mutation: the loop check left out
StoresIdNoLoopCheck(id, hierarchy) == id # 0

\* a row stores its id in this round: the id is not zero and is not in its chain
StoresId(id, hierarchy) == id # 0 /\ id \notin Range(hierarchy)

\* mutation: all_zeroes taken literally, from the ids alone
RoundAllZeroesIdsOnly(ids, hs) == \A i \in 1..Len(ids) : ids[i] = 0

\* all_zeroes after the for loop over the rows
RoundAllZeroes(ids, hs) == \A i \in 1..Len(ids) : ~StoresId(ids[i], hs[i])

\* hierarchies after the for loop over the rows
RoundHierarchies(ids, hs) ==
    [i \in 1..Len(ids) |->
        IF StoresId(ids[i], hs[i]) THEN Append(hs[i], ids[i]) ELSE hs[i]]

\* total_count after the for loop over the rows
RoundCount(ids, hs) == Cardinality({i \in 1..Len(ids) : StoresId(ids[i], hs[i])})

RECURSIVE GetHierarchies(_, _, _)
\* the while (true) loop run to its break: hierarchies at the break, from the
\* ids and the chains at the start of a round
GetHierarchies(dict, ids, hs) ==
    IF RoundAllZeroes(ids, hs) THEN hs
    ELSE GetHierarchies(dict, ToParent(dict, ids, Create("UInt64", Len(ids))),
                        RoundHierarchies(ids, hs))

RECURSIVE Flatten(_, _)
\* out after the insert_assume_reserved calls of rows 1..n
Flatten(hs, n) == IF n = 0 THEN <<>> ELSE Flatten(hs, n - 1) \o hs[n]

\* mutation: the offset of a row is the length of its own chain
OffsetsPerRow(hs) == [i \in 1..Len(hs) |-> Len(hs[i])]

\* offsets[i] = out.size() after row i was inserted
Offsets(hs) == [i \in 1..Len(hs) |-> Len(Flatten(hs, i))]

\* (*array)[i]: the elements of row i of a ColumnArray
RowChain(col, i) ==
    SubSeq(col.data, (IF i = 1 THEN 0 ELSE col.offsets[i - 1]) + 1, col.offsets[i])

\* the for loop of one round (lines 1449-1470)
Scan ==
    /\ pc = "scan"
    /\ hierarchies' = RoundHierarchies(in_array, hierarchies)
    /\ total_count' = total_count + RoundCount(in_array, hierarchies)
    /\ all_zeroes' = RoundAllZeroes(in_array, hierarchies)
    /\ pc' = "decide"
    /\ UNCHANGED <<threads, dictionaries, fn, impl, block, err, calls, probed, entered, in_array,
                   out_array, n_toParent, prev_result>>

\* mutation: the toParent call without the swap of the two arrays
TranslateNoSwap ==
    /\ pc = "decide"
    /\ ~all_zeroes
    /\ out_array' = ToParent(dictionaries[block.args[1].value], in_array, out_array)
    /\ n_toParent' = IF n_toParent < MaxCalls THEN n_toParent + 1 ELSE MaxCalls
    /\ pc' = "scan"
    /\ UNCHANGED <<threads, dictionaries, fn, impl, block, err, calls, probed, entered, hierarchies,
                   total_count, all_zeroes, prev_result, in_array>>

\* mutation: toParent writes into the id column of the block, not into a
\* buffer of the walk
TranslateInPlace ==
    /\ pc = "decide"
    /\ ~all_zeroes
    /\ in_array' = ToParent(dictionaries[block.args[1].value], in_array, out_array)
    /\ out_array' = in_array
    /\ block' = IF IsVectorUInt64(block.args[2])
                THEN [block EXCEPT !.args[2].data = in_array']
                ELSE block
    /\ n_toParent' = IF n_toParent < MaxCalls THEN n_toParent + 1 ELSE MaxCalls
    /\ pc' = "scan"
    /\ UNCHANGED <<threads, dictionaries, fn, impl, err, calls, probed, entered, hierarchies,
                   total_count, all_zeroes, prev_result>>

\* the bulk toParent call and the swap of the two arrays
Translate ==
    /\ pc = "decide"
    /\ ~all_zeroes
    /\ in_array' = ToParent(dictionaries[block.args[1].value], in_array, out_array)
    /\ out_array' = in_array
    /\ n_toParent' = IF n_toParent < MaxCalls THEN n_toParent + 1 ELSE MaxCalls
    /\ pc' = "scan"
    /\ UNCHANGED <<threads, dictionaries, fn, impl, block, err, calls, probed, entered, hierarchies,
                   total_count, all_zeroes, prev_result>>

\* the break, the flattening and the assignment of the result column
Finish ==
    /\ pc = "decide"
    /\ all_zeroes
    /\ LET array == ColumnArray(Flatten(hierarchies, Len(hierarchies)), Offsets(hierarchies))
           id_col == block.args[2]
       IN block' = [block EXCEPT !.result =
                        IF IsVectorUInt64(id_col) THEN array
                        ELSE Const("Array(UInt64)", RowChain(array, 1), id_col.size)]
    /\ pc' = "done"
    /\ UNCHANGED <<threads, dictionaries, fn, impl, err, calls, probed, entered, in_array, out_array,
                   hierarchies, total_count, all_zeroes, n_toParent, prev_result>>

(***************************************************************************)
(* The type-erased dictGet and dictGetOrDefault                            *)
(***************************************************************************)
TypeErased == {"dictGet", "dictGetOrDefault"}

\* isValueRepresentedByInteger() && getSizeOfValueInMemory() <= sizeof(Int64)
IsIntegerUpTo64(type) ==
    type \in {"UInt8", "UInt16", "UInt32", "UInt64", "Int8", "Int16", "Int32", "Int64",
              "Date", "DateTime"}

\* mutation: the name is not compared, the first attribute is taken
FindAttributeAnyName(attributes, attr_name, idx) ==
    IF idx > Len(attributes) THEN 0 ELSE idx

RECURSIVE FindAttribute(_, _, _)
\* the for loop over structure.attributes: the first index whose name matches, 0 if none
FindAttribute(attributes, attr_name, idx) ==
    IF idx > Len(attributes) THEN 0
    ELSE IF attributes[idx].name = attr_name THEN idx
    ELSE FindAttribute(attributes, attr_name, idx + 1)

\* the if / DISPATCH(TYPE) chain: the executor created for a declared type
SelectImpl(f, type) ==
    IF type = "String"
    THEN (IF f = "dictGet" THEN "dictGetString" ELSE "dictGetStringOrDefault")
    ELSE IF type \in Range(DictTypes)
    THEN (IF f = "dictGet" THEN GetName(type) ELSE OrDefaultName(type))
    ELSE "null"

\* mutation: a resolution that throws resets impl
ResolvedCleared(code, selected, made) ==
    [err |-> code, impl |-> "null", type |-> "none", calls |-> made]

\* getReturnTypeImpl threw code: impl as it was, which is selected; no type returned
Resolved(code, selected, made) ==
    [err |-> code, impl |-> selected, type |-> "none", calls |-> made]

\* impl = ...::create(context); return attribute.type;
Returns(type, selected, made) ==
    [err |-> "none", impl |-> selected, type |-> type, calls |-> made]

\* getReturnTypeImpl(arguments) of the type-erased function f; cached is impl before
GetReturnTypeImpl(f, dicts, arguments, cached) ==
    IF f = "dictGet" /\ Len(arguments) \notin {3, 4}
    THEN Resolved("NUMBER_OF_ARGUMENTS_DOESNT_MATCH", cached, <<>>)
    ELSE IF ~IsConstString(arguments[1]) \/ ~IsConstString(arguments[2])
    THEN Resolved("ILLEGAL_TYPE_OF_ARGUMENT", cached, <<>>)
    ELSE IF arguments[3].type \notin {"UInt64", "Tuple"}
    THEN Resolved("ILLEGAL_TYPE_OF_ARGUMENT", cached, <<>>)
    ELSE IF f = "dictGet" /\ Len(arguments) = 4 /\ ~IsIntegerUpTo64(arguments[4].type)
    THEN Resolved("ILLEGAL_TYPE_OF_ARGUMENT", cached, <<>>)
    ELSE LET dict_name == arguments[1].value
             attr_name == arguments[2].value
             made == <<Call("getDictionary", dict_name)>>
         IN IF dict_name \notin DOMAIN dicts
            THEN Resolved("DICTIONARIES_WAS_NOT_LOADED", cached, made)
            ELSE LET attributes == dicts[dict_name].attributes
                     idx == FindAttribute(attributes, attr_name, 1)
                 IN IF idx = 0 THEN Resolved("BAD_ARGUMENTS", cached, made)
                    ELSE IF SelectImpl(f, attributes[idx].type) = "null"
                    THEN Resolved("UNKNOWN_TYPE: Unknown " \o f \o " type", cached, made)
                    ELSE IF f = "dictGetOrDefault"
                            /\ arguments[4].type # attributes[idx].type
                    THEN Resolved("ILLEGAL_TYPE_OF_ARGUMENT", cached, made)
                    ELSE Returns(attributes[idx].type,
                                 SelectImpl(f, attributes[idx].type), made)

(***************************************************************************)
(* The actions: one evaluation of a function over the block.               *)
(***************************************************************************)
\* executeImpl of function f over the block: its outcome stored in the state
Evaluate(f) ==
    LET e == ExecuteImpl(f, dictionaries, block) IN
    /\ err' = e.out.err
    /\ calls' = calls \o e.out.calls
    /\ probed' = e.probed
    /\ entered' = e.entered
    /\ IF e.out.walk
       THEN /\ pc' = "scan"
            /\ in_array' = e.out.in
            /\ out_array' = Create("UInt64", Len(e.out.in))
            /\ hierarchies' = [i \in 1..Len(e.out.in) |-> <<>>]
            /\ total_count' = 0
            /\ UNCHANGED <<block, all_zeroes, n_toParent>>
       ELSE /\ pc' = "done"
            /\ \E junk \in [1..block.rows -> JunkValues] :
                  block' = [block EXCEPT !.result =
                               IF e.out.assigned THEN Settled(e.out.result, junk) ELSE @]
            /\ UNCHANGED walk_vars
    /\ UNCHANGED <<threads, dictionaries, fn, impl, prev_result>>

DictHas == pc = "start" /\ fn = "dictHas" /\ Evaluate(fn)

DictGet == pc = "start" /\ fn \in GetFunctions /\ Evaluate(fn)

DictGetOrDefault == pc = "start" /\ fn \in OrDefaultFunctions /\ Evaluate(fn)

DictGetHierarchy == pc = "start" /\ fn = "dictGetHierarchy" /\ Evaluate(fn)

DictIsIn == pc = "start" /\ fn = "dictIsIn" /\ Evaluate(fn)

\* FunctionDictGetNoType / FunctionDictGetNoTypeOrDefault :: getReturnTypeImpl
Resolve ==
    /\ pc = "resolve"
    /\ fn \in TypeErased
    /\ LET r == GetReturnTypeImpl(fn, dictionaries, block.args, impl) IN
       /\ impl' = r.impl
       /\ err' = r.err
       /\ calls' = calls \o r.calls
       /\ pc' = IF r.err = "none" THEN "start" ELSE "done"
    /\ UNCHANGED <<threads, dictionaries, fn, block, probed, entered, walk_vars, prev_result>>

\* FunctionDictGetNoType / FunctionDictGetNoTypeOrDefault :: executeImpl
DictGetNoType == pc = "start" /\ fn \in TypeErased /\ impl # "null" /\ Evaluate(impl)

\* the query goes on to dictIsIn over the same dictionary and ids
NextFunction ==
    /\ pc = "done"
    /\ fn = "dictGetHierarchy"
    /\ err = "none"
    /\ block.rows > 0
    /\ \E a \in DOMAIN dictionaries[block.args[1].value].parent :
          block' = [args |-> block.args \o <<Const("UInt64", a, block.rows)>>,
                    rows |-> block.rows, result |-> NoColumn]
    /\ fn' = "dictIsIn"
    /\ prev_result' = block.result
    /\ pc' = "start"
    /\ calls' = <<>>
    /\ probed' = <<>>
    /\ entered' = <<>>
    /\ UNCHANGED <<threads, dictionaries, impl, err, walk_vars>>

(***************************************************************************)
(* The initial states: a function, a registry and a block.                 *)
(***************************************************************************)
Keys == 0..MaxKey

NameColumn(n) == Const("String", "d", n)

Block(args, n) == [args |-> args, rows |-> n, result |-> NoColumn]

TupleColumn(columns) == [kind |-> "tuple", type |-> "Tuple", columns |-> columns]

\* parent(5) = 7, parent(7) = 5
ExampleCycle(z) == (0 :> z) @@ (5 :> 7) @@ (7 :> 5)

\* parent(100) = 10, parent(10) = 1, parent(1) = 0
ExampleGeo == (0 :> 0) @@ (1 :> 0) @@ (10 :> 1) @@ (100 :> 10) @@ (99 :> 0)

ParentRelations == [Keys -> Keys] \cup {ExampleCycle(z) : z \in {0, 5, 7}} \cup {ExampleGeo}

\* a dictionary with one attribute "a" of the type, stored for the keys
Dictionary(kind, hh, type, keys, values, parent) ==
    [kind |-> kind, hasHierarchy |-> hh,
     attributes |-> <<[name |-> "a", type |-> type]>>,
     keys |-> keys, data |-> [a \in {"a"} |-> [k \in keys |-> values[k]]],
     parent |-> parent]

Start(f, dicts, blk) ==
    /\ fn = f
    /\ dictionaries = dicts
    /\ block = blk
    /\ impl = "null"
    /\ pc = IF f \in TypeErased THEN "resolve" ELSE "start"
    /\ err = "none"
    /\ calls = <<>>
    /\ probed = <<>>
    /\ entered = <<>>
    /\ in_array = <<>>
    /\ out_array = <<>>
    /\ hierarchies = <<>>
    /\ total_count = 0
    /\ all_zeroes = TRUE
    /\ n_toParent = 0
    /\ prev_result = NoColumn
    /\ threads = <<>>

\* dictGetHierarchy over every parent relation and every batch of its ids
InitHierarchy ==
    \E p \in ParentRelations : \E n \in 1..MaxRows :
    \E id_col \in {Vector("UInt64", ids) : ids \in [1..n -> DOMAIN p]}
                  \cup {Const("UInt64", id, n) : id \in DOMAIN p} :
        Start("dictGetHierarchy",
              "d" :> Dictionary("FlatDictionary", TRUE, "UInt64", DOMAIN p, p, p),
              Block(<<NameColumn(n), id_col>>, n))

NextWalk ==
    \/ DictGetHierarchy
    \/ Scan
    \/ Translate
    \/ Finish

SpecWalk == InitHierarchy /\ [][NextWalk]_vars

\* an evaluation that was started runs on until it returns or throws
FairWalk == SpecWalk /\ WF_vars(NextWalk)

NextHierarchy ==
    \/ NextWalk
    \/ NextFunction
    \/ DictIsIn

SpecHierarchy == InitHierarchy /\ [][NextHierarchy]_vars

\* the values stored for the keys of the enumerated dictionaries
StoredStrings == <<"v0", "v1", "v2", "v3", "v4">>

StoredValue(type, k) == IF type = "String" THEN StoredStrings[k + 1] ELSE 10 + k

\* the values the default columns of the enumerated blocks hold
DefaultValues(type) == IF type = "String" THEN {"", "x"} ELSE {0, 1}

AttrColumn(n) == Const("String", "a", n)

IdColumns(n) ==
    {Vector("UInt64", ids) : ids \in [1..n -> Keys]}
    \cup {Const("UInt64", id, n) : id \in Keys}

DefaultColumns(type, n) ==
    {Vector(type, d) : d \in [1..n -> DefaultValues(type)]}
    \cup {Const(type, v, n) : v \in DefaultValues(type)}

\* the composite keys of the enumerated dictionaries: pairs of UInt64
PairKeys == {<<a, b>> : a, b \in 0..1}

TupleColumns(n) ==
    {TupleColumn(<<Vector("UInt64", [i \in 1..n |-> ks[i][1]]),
                   Vector("UInt64", [i \in 1..n |-> ks[i][2]])>>) : ks \in [1..n -> PairKeys]}
    \cup {Const("Tuple", k, n) : k \in PairKeys}

\* the argument columns of f over n rows, the key column among key_cols
LookupArgs(f, n, key_cols) ==
    IF f = "dictHas" THEN {<<NameColumn(n), k>> : k \in key_cols}
    ELSE IF f \in GetFunctions THEN {<<NameColumn(n), AttrColumn(n), k>> : k \in key_cols}
    ELSE {<<NameColumn(n), AttrColumn(n), k, d>> :
             k \in key_cols, d \in DefaultColumns(TypeOf(f), n)}

AttrType(f) == IF f = "dictHas" THEN "UInt64" ELSE TypeOf(f)

\* dictHas, dictGet<T>, dictGet<T>OrDefault over a scalar-keyed dictionary
InitScalar ==
    \E f \in {"dictHas", "dictGetUInt64", "dictGetString",
              "dictGetUInt64OrDefault", "dictGetStringOrDefault"} :
    \E present \in SUBSET Keys : \E n \in 1..MaxRows :
    \E args \in LookupArgs(f, n, IdColumns(n)) :
        Start(f, "d" :> Dictionary("HashedDictionary", FALSE, AttrType(f), present,
                                   [k \in Keys |-> StoredValue(AttrType(f), k)],
                                   [k \in Keys |-> 0]),
              Block(args, n))

\* dictHas, dictGet<T>, dictGet<T>OrDefault over a composite-keyed dictionary
InitComposite ==
    \E f \in {"dictHas", "dictGetUInt64", "dictGetUInt64OrDefault"} :
    \E present \in SUBSET PairKeys : \E n \in 1..MaxRows :
    \E args \in LookupArgs(f, n, TupleColumns(n)) :
        Start(f, "d" :> Dictionary("ComplexKeyHashedDictionary", FALSE, AttrType(f), present,
                                   [k \in PairKeys |->
                                       StoredValue(AttrType(f), 2 * k[1] + k[2])],
                                   [k \in Keys |-> 0]),
              Block(args, n))

InitLookup == InitScalar \/ InitComposite

NextLookup ==
    \/ DictHas
    \/ DictGet
    \/ DictGetOrDefault

SpecLookup == InitLookup /\ [][NextLookup]_vars

\* every function over every kind of dictionary, loaded or not, and over blocks
\* of zero rows or more with the key in every shape
FrontFunctions ==
    {"dictHas", "dictGetUInt64", "dictGetString", "dictGetUInt64OrDefault",
     "dictGetStringOrDefault", "dictGetHierarchy", "dictIsIn"} \cup TypeErased

FrontAttributes ==
    <<[name |-> "a", type |-> "UInt64"], [name |-> "s", type |-> "String"],
      [name |-> "w", type |-> "Decimal32"]>>

FrontDictionary(kind, hh) ==
    LET keys == IF kind \in Range(SimpleKinds) THEN Keys ELSE {<<1, 1>>} IN
    [kind |-> kind, hasHierarchy |-> hh, attributes |-> FrontAttributes, keys |-> keys,
     data |-> [x \in {"a", "s", "w"} |->
                  [k \in keys |-> IF x = "s" THEN "v1" ELSE 11]],
     parent |-> [k \in Keys |-> IF k = 0 THEN 0 ELSE k - 1]]

EmptyRegistry == [name \in {} |-> NoColumn]

Registries ==
    {EmptyRegistry}
    \cup {"d" :> FrontDictionary(kind, kind \in Range(SimpleKinds)) :
             kind \in Range(SimpleKinds) \cup Range(ComplexKinds) \cup Range(RangeKinds)}
    \cup {"d" :> FrontDictionary("HashedDictionary", FALSE)}

Ones(n) == [i \in 1..n |-> 1]

NameShapes(n) == {NameColumn(n), Vector("String", [i \in 1..n |-> "d"])}

IdShapes(n) == {Vector("UInt64", Ones(n)), Const("UInt64", 1, n)}

KeyShapes(n) ==
    IdShapes(n)
    \cup {TupleColumn(<<Vector("UInt64", Ones(n)), Vector("UInt64", Ones(n))>>),
          Const("Tuple", <<1, 1>>, n)}

AttrShapes(f, n) ==
    IF f \in TypeErased THEN {Const("String", x, n) : x \in {"a", "s", "w", "zz"}}
    ELSE IF TypeOf(f) = "String" THEN {Const("String", "s", n)}
    ELSE {Const("String", "a", n)}

DefaultShapes(f, n) ==
    LET of(type) == {Vector(type, [i \in 1..n |-> Zero(type)]), Const(type, Zero(type), n)}
    IN IF f \in TypeErased THEN of("UInt64") \cup of("String") ELSE of(TypeOf(f))

\* the point-in-time column of a range get: a vector or a constant of Int64,
\* or a constant of a narrower integer type
DateShapes(n) == {Vector("Int64", Ones(n)), Const("Int64", 1, n), Const("UInt16", 1, n)}

FrontArgs(f, n) ==
    IF f \in {"dictHas", "dictGetHierarchy"}
    THEN {<<name, key>> :
             name \in NameShapes(n),
             key \in IF f = "dictHas" THEN KeyShapes(n) ELSE IdShapes(n)}
    ELSE IF f = "dictIsIn"
    THEN {<<name, child, ancestor>> :
             name \in NameShapes(n), child \in IdShapes(n), ancestor \in IdShapes(n)}
    ELSE IF f \in GetFunctions \cup {"dictGet"}
    THEN {<<name, attr, key>> :
             name \in NameShapes(n), attr \in AttrShapes(f, n), key \in KeyShapes(n)}
         \cup {<<name, attr, key, date>> :
                  name \in NameShapes(n), attr \in AttrShapes(f, n), key \in KeyShapes(n),
                  date \in DateShapes(n)}
    ELSE {<<name, attr, key, def>> :
             name \in NameShapes(n), attr \in AttrShapes(f, n), key \in KeyShapes(n),
             def \in DefaultShapes(f, n)}

InitFront ==
    \E f \in FrontFunctions : \E dicts \in Registries : \E n \in 0..MaxRows :
    \E args \in FrontArgs(f, n) :
        Start(f, dicts, Block(args, n))

Init == InitFront

Next ==
    \/ DictHas
    \/ DictGet
    \/ DictGetOrDefault
    \/ DictGetHierarchy
    \/ DictIsIn
    \/ Resolve
    \/ DictGetNoType
    \/ Scan
    \/ Translate
    \/ Finish
    \/ NextFunction

Spec == Init /\ [][Next]_vars

(***************************************************************************)
(* One FunctionDictGetNoType / FunctionDictGetNoTypeOrDefault object over  *)
(* several calls: impl is a member and outlives the call that assigned it. *)
(***************************************************************************)
\* the blocks one object is called with: the names are constants
ObjectArgs(f, n) == {args \in FrontArgs(f, n) : IsConstString(args[1])}

\* the object is called again with another block: getReturnTypeImpl once more,
\* or executeImpl with the executor it holds (executeImpl dereferences impl, so
\* it is only called once impl was assigned)
Reuse ==
    /\ pc = "done"
    /\ fn \in TypeErased
    /\ \E n \in 0..MaxRows : \E args \in ObjectArgs(fn, n) : block' = Block(args, n)
    /\ \E next \in IF impl = "null" THEN {"resolve"} ELSE {"resolve", "start"} : pc' = next
    /\ err' = "none"
    /\ calls' = <<>>
    /\ probed' = <<>>
    /\ entered' = <<>>
    /\ UNCHANGED <<threads, dictionaries, fn, impl, walk_vars, prev_result>>

InitObject ==
    \E f \in TypeErased : \E dicts \in Registries : \E n \in 0..MaxRows :
    \E args \in ObjectArgs(f, n) :
        Start(f, dicts, Block(args, n))

NextObject ==
    \/ Resolve
    \/ DictGetNoType
    \/ Reuse

SpecObject == InitObject /\ [][NextObject]_vars

(***************************************************************************)
(* Threads calling one shared FunctionDictGetNoType /                      *)
(* FunctionDictGetNoTypeOrDefault object.  The object has no lock and no   *)
(* atomic: a call that overlaps a call that assigns impl races with it.    *)
(***************************************************************************)
MaxThreads == 2

Threads == 1..MaxThreads

\* impl read or written in a data race: not a pointer to any executor
Torn == "torn"

\* a thread that is in no call of the object
IdleThread == [state |-> "idle", args |-> <<>>, raced |-> FALSE, executor |-> "null",
               err |-> "none"]

\* the registry the threads share: the dictionary loaded, or not
ThreadRegistries == {EmptyRegistry, "d" :> FrontDictionary("HashedDictionary", TRUE)}

\* the one-row blocks the threads pass
ThreadArgs(f) ==
    {args \in ObjectArgs(f, 1) :
        /\ args[2].value \in {"a", "s", "zz"}
        /\ IsVectorUInt64(args[3])
        /\ Len(args) = 4 => (f = "dictGetOrDefault" /\ IsVectorUInt64(args[4]))}

\* thread t is inside getReturnTypeImpl
Resolving(t) == threads[t].state = "resolving"

\* thread t is inside executeImpl
Evaluating(t) == threads[t].state = "evaluating"

\* the call of thread t overlaps a getReturnTypeImpl of another thread that
\* assigns impl, or has overlapped one
Races(t) ==
    \/ threads[t].raced
    \/ \E u \in Threads \ {t} :
          /\ Resolving(u)
          /\ GetReturnTypeImpl(fn, dictionaries, threads[u].args, impl).err = "none"

\* thread t calls getReturnTypeImpl(arguments)
BeginResolve(t) ==
    /\ pc = "threads"
    /\ threads[t].state = "idle"
    /\ \E args \in ThreadArgs(fn) :
          threads' = [threads EXCEPT ![t] = [IdleThread EXCEPT !.state = "resolving",
                                                               !.args = args]]
    /\ UNCHANGED <<dictionaries, fn, impl, block, pc, err, calls, probed, entered,
                   walk_vars, prev_result>>

\* getReturnTypeImpl of thread t runs to its return or throw: impl = ...::create(context)
\* on the path that returns; the assignment is a plain write of the shared member
EndResolve(t) ==
    /\ pc = "threads"
    /\ Resolving(t)
    /\ LET r == GetReturnTypeImpl(fn, dictionaries, threads[t].args, impl)
           others == {u \in Threads \ {t} : threads[u].state # "idle"}
       IN /\ \E written \in IF r.err = "none" /\ (threads[t].raced \/ others # {})
                            THEN {r.impl, Torn} ELSE {r.impl} :
                impl' = written
          /\ threads' = [u \in Threads |->
                IF u = t THEN [IdleThread EXCEPT !.err = r.err]
                ELSE IF u \in others /\ r.err = "none"
                THEN [threads[u] EXCEPT !.raced = TRUE]
                ELSE threads[u]]
    /\ UNCHANGED <<dictionaries, fn, block, pc, err, calls, probed, entered, walk_vars,
                   prev_result>>

\* thread t calls executeImpl(block, ...)
BeginEvaluate(t) ==
    /\ pc = "threads"
    /\ threads[t].state = "idle"
    /\ impl # "null"
    /\ \E args \in ThreadArgs(fn) :
          threads' = [threads EXCEPT ![t] = [IdleThread EXCEPT !.state = "evaluating",
                                                               !.args = args]]
    /\ UNCHANGED <<dictionaries, fn, impl, block, pc, err, calls, probed, entered,
                   walk_vars, prev_result>>

\* mutation: executeImpl drops the executor once it has run
EndEvaluateDropping(t) ==
    /\ pc = "threads"
    /\ Evaluating(t)
    /\ impl' = "null"
    /\ threads' = [threads EXCEPT ![t] = [IdleThread EXCEPT !.executor = impl]]
    /\ UNCHANGED <<dictionaries, fn, block, pc, err, calls, probed, entered, walk_vars,
                   prev_result>>

\* impl->executeImpl(block, arguments, result, input_rows_count) of thread t:
\* impl is read, and the executor read runs over the thread's block.  A read
\* that races with an assignment yields the value before, the value after or
\* neither
EndEvaluate(t) ==
    /\ pc = "threads"
    /\ Evaluating(t)
    /\ \E loaded \in IF Races(t) THEN {impl, Torn} ELSE {impl} :
          LET e == ExecuteImpl(loaded, dictionaries, Block(threads[t].args, 1))
              code == IF loaded = Torn THEN "undefined" ELSE e.out.err
          IN threads' = [threads EXCEPT ![t] = [IdleThread EXCEPT !.executor = loaded,
                                                                  !.err = code]]
    /\ UNCHANGED <<dictionaries, fn, impl, block, pc, err, calls, probed, entered,
                   walk_vars, prev_result>>

InitThreads ==
    /\ fn \in TypeErased
    /\ dictionaries \in ThreadRegistries
    /\ block = Block(<<>>, 0)
    /\ impl = "null"
    /\ pc = "threads"
    /\ err = "none"
    /\ calls = <<>>
    /\ probed = <<>>
    /\ entered = <<>>
    /\ in_array = <<>>
    /\ out_array = <<>>
    /\ hierarchies = <<>>
    /\ total_count = 0
    /\ all_zeroes = TRUE
    /\ n_toParent = 0
    /\ prev_result = NoColumn
    /\ threads = [t \in Threads |-> IdleThread]

NextThreads ==
    \/ \E t \in Threads : BeginResolve(t)
    \/ \E t \in Threads : EndResolve(t)
    \/ \E t \in Threads : BeginEvaluate(t)
    \/ \E t \in Threads : EndEvaluate(t)

SpecThreads == InitThreads /\ [][NextThreads]_vars

(***************************************************************************)
(* Properties of the hierarchy walk.                                       *)
(***************************************************************************)
\* the parent relation of the dictionary the block names
Parent == dictionaries[block.args[1].value].parent

\* the id of row i of the id column of dictGetHierarchy
InputId(i) ==
    IF block.args[2].kind = "const" THEN block.args[2].value ELSE block.args[2].data[i]

\* the chain of row i in the result column of dictGetHierarchy
ResultChain(col, i) == IF col.kind = "array" THEN RowChain(col, i) ELSE col.value

HierarchyDone == fn = "dictGetHierarchy" /\ pc = "done" /\ err = "none"

RECURSIVE ChainUpTo(_, _, _)
\* [id, p(id), p(p(id)), ...] cut before the sentinel 0 and before an id seen before
ChainUpTo(p, id, seen) ==
    IF id = 0 \/ id \in seen THEN <<>>
    ELSE <<id>> \o ChainUpTo(p, p[id], seen \cup {id})

\* following p from any id reaches the sentinel, where the relation ends
Acyclic(p) ==
    /\ p[0] = 0
    /\ \A k \in DOMAIN p \ {0} :
          LET c == ChainUpTo(p, k, {}) IN p[c[Len(c)]] = 0

RECURSIVE Chain(_, _)
\* [id, p(id), p(p(id)), ...] up to but not including the sentinel 0
Chain(p, id) == IF id = 0 THEN <<>> ELSE <<id>> \o Chain(p, p[id])

NoRepeat(seq) == \A i, j \in 1..Len(seq) : i # j => seq[i] # seq[j]

\* C1: the round loop of dictGetHierarchy always reaches a round in which no
\* row stores an id and then stops, for every batch and every parent relation,
\* cyclic ones included.
C1_WalkTerminates ==
    (fn = "dictGetHierarchy" /\ pc = "scan") ~> (fn = "dictGetHierarchy" /\ pc = "done")

\* a walk over a relation with a cycle has ended after two or more toParent calls
C1_Witness == HierarchyDone /\ ~Acyclic(Parent) /\ Parent[0] = 0 /\ n_toParent >= 2

\* C2: over an acyclic parent relation the chain of every row of every batch is
\* [id, parent(id), parent(parent(id)), ...] up to but not including 0; the
\* chain of id 0 is empty.
C2_AcyclicChain ==
    (HierarchyDone /\ Acyclic(Parent)) =>
        \A i \in 1..block.rows : ResultChain(block.result, i) = Chain(Parent, InputId(i))

\* a batch over an acyclic relation has ended with a chain of three ids and an empty one
C2_Witness ==
    /\ HierarchyDone
    /\ Acyclic(Parent)
    /\ \E i \in 1..block.rows : Len(ResultChain(block.result, i)) >= 3
    /\ \E i \in 1..block.rows : InputId(i) = 0 /\ ResultChain(block.result, i) = <<>>

\* C3: in every state of the walk no chain holds an id twice and no chain holds
\* 0; with parent(5) = 7 and parent(7) = 5 the chain of id 5 is [5, 7].
C3_NoRepeatNoSentinel ==
    /\ \A i \in 1..Len(hierarchies) :
          NoRepeat(hierarchies[i]) /\ 0 \notin Range(hierarchies[i])
    /\ (HierarchyDone /\ 5 \in DOMAIN Parent) =>
          \A i \in 1..block.rows :
             /\ NoRepeat(ResultChain(block.result, i))
             /\ 0 \notin Range(ResultChain(block.result, i))
             /\ InputId(i) = 5 => ResultChain(block.result, i) = <<5, 7>>

\* the walk of id 5 over parent(5) = 7, parent(7) = 5 has ended
C3_Witness ==
    /\ HierarchyDone
    /\ 5 \in DOMAIN Parent
    /\ \E i \in 1..block.rows : InputId(i) = 5 /\ ResultChain(block.result, i) = <<5, 7>>
    /\ n_toParent >= 2

(***************************************************************************)
(* Properties of the lookups.                                              *)
(***************************************************************************)
\* the dictionary the block names
Dict == dictionaries[block.args[1].value]

\* the calls made to the backend: all calls but the resolution of the name
BackendCalls == SelectSeq(calls, LAMBDA c : c.op # "getDictionary")

\* the value of row r of a column
ValueAt(col, r) == IF col.kind = "const" THEN col.value ELSE col.data[r]

\* the value the dictionary stores for a key (the key is present)
Stored(key) == Dict.data[block.args[2].value][key]

OrDefaultDone == fn \in OrDefaultFunctions /\ pc = "done"

ScalarIds == Dict.kind \in Range(SimpleKinds) /\ block.args[3].type = "UInt64"

ConstIdConstDefault ==
    OrDefaultDone /\ ScalarIds /\ block.args[3].kind = "const" /\ block.args[4].kind = "const"

ConstIdVectorDefault ==
    OrDefaultDone /\ ScalarIds /\ block.args[3].kind = "const" /\ block.args[4].kind = "vector"

\* C5: with a constant id and a constant default, get-or-default makes exactly
\* one backend call, the get with default of the one id, and returns a constant
\* column of as many rows as the block, holding the stored value if the key is
\* present and the default otherwise.
C5_ConstIdConstDefault ==
    ConstIdConstDefault =>
        LET id == block.args[3].value IN
        /\ err = "none"
        /\ BackendCalls = <<Call("getOrDefault", <<id>>)>>
        /\ block.result.kind = "const"
        /\ block.result.size = block.rows
        /\ block.result.value =
              IF id \in Dict.keys THEN Stored(id) ELSE block.args[4].value

\* over a block of two rows or more, an absent key was answered with a default
\* that is not T()
C5_Witness ==
    /\ ConstIdConstDefault
    /\ block.rows >= 2
    /\ block.args[3].value \notin Dict.keys
    /\ block.result = Const(TypeOf(fn), block.args[4].value, block.rows)
    /\ block.args[4].value # Zero(TypeOf(fn))

\* C6: with a constant id and a vector default, get-or-default first asks has
\* for the id; for an absent key the result is the default column itself (a
\* vector of the same length and values), for a present key a constant column
\* of as many rows as the block holding the stored value.
C6_ConstIdVectorDefault ==
    ConstIdVectorDefault =>
        LET id == block.args[3].value IN
        /\ err = "none"
        /\ BackendCalls[1] = Call("has", <<id>>)
        /\ IF id \in Dict.keys
           THEN /\ block.result = Const(TypeOf(fn), Stored(id), block.rows)
                /\ BackendCalls = <<Call("has", <<id>>), Call("getOrDefault", <<id>>)>>
           ELSE /\ block.result = block.args[4]
                /\ block.result.kind = "vector"
                /\ Len(block.result.data) = block.rows
                /\ BackendCalls = <<Call("has", <<id>>)>>

\* an absent key answered with a default column whose rows differ
C6_Witness ==
    /\ ConstIdVectorDefault
    /\ block.args[3].value \notin Dict.keys
    /\ block.result = block.args[4]
    /\ block.rows >= 2
    /\ block.result.data[1] # block.result.data[2]

\* C7: over a scalar-keyed dictionary, with the id and the default each a
\* vector or a constant, row r of the result of get-or-default is the stored
\* value of id r if the dictionary has it, and default r otherwise.
C7_RowWiseReference ==
    (OrDefaultDone /\ ScalarIds) =>
        /\ err = "none"
        /\ Size(block.result) = block.rows
        /\ \A r \in 1..block.rows :
              LET id == ValueAt(block.args[3], r) IN
              ValueAt(block.result, r) =
                 IF id \in Dict.keys THEN Stored(id) ELSE ValueAt(block.args[4], r)

\* a batch with a present and an absent key and with two different defaults
C7_Witness ==
    /\ OrDefaultDone
    /\ ScalarIds
    /\ err = "none"
    /\ block.args[3].kind = "vector"
    /\ block.args[4].kind = "vector"
    /\ block.rows >= 2
    /\ block.args[3].data[1] \in Dict.keys
    /\ block.args[3].data[2] \notin Dict.keys
    /\ block.args[4].data[1] # block.args[4].data[2]
    /\ block.result.data[2] = block.args[4].data[2]

\* the key column of dictHas is a full column of the dictionary's key: a vector
\* of ids for a scalar-keyed dictionary, a tuple of vectors for a composite one
FullKeys ==
    \/ Dict.kind \in Range(SimpleKinds) /\ IsVectorUInt64(block.args[2])
    \/ Dict.kind \in Range(ComplexKinds) /\ block.args[2].kind = "tuple"

\* the keys of a full key column, one per row
KeySequence(col) == IF col.kind = "tuple" THEN TupleKeys(col.columns) ELSE col.data

\* C8: over a full key column of one row or more, dictHas makes one bulk has
\* call with all the keys and returns one flag per row.
C8_HasLength ==
    (fn = "dictHas" /\ pc = "done" /\ FullKeys) =>
        /\ err = "none"
        /\ BackendCalls = <<Call("has", KeySequence(block.args[2]))>>
        /\ Len(BackendCalls[1].keys) = block.rows
        /\ block.result.kind = "vector"
        /\ Len(block.result.data) = block.rows
        /\ \A r \in 1..block.rows : block.result.data[r] \in {0, 1}

\* dictHas has answered two rows of a tuple column, one key present and one absent
C8_Witness ==
    /\ fn = "dictHas"
    /\ pc = "done"
    /\ block.args[2].kind = "tuple"
    /\ block.rows >= 2
    /\ block.result = Vector("UInt8", <<1, 0>>)

(***************************************************************************)
(* Properties of executeImpl: the zero-row block and the dispatcher.       *)
(***************************************************************************)
\* the function whose executeImpl runs: the executor selected, for dictGet and
\* dictGetOrDefault
Executor == IF fn \in TypeErased THEN impl ELSE fn

\* the evaluation has returned or thrown
Returned == pc = "done"

\* the arguments are what the function is declared for: constant names, and for
\* a loaded dictionary an attribute it has, of a type dictGet knows, with a
\* default of that type
WellFormedCall ==
    /\ IsConstString(block.args[1])
    /\ fn \in TypeErased =>
          /\ IsConstString(block.args[2])
          /\ block.args[1].value \in DOMAIN dictionaries =>
                LET idx == FindAttribute(Dict.attributes, block.args[2].value, 1) IN
                /\ idx # 0
                /\ Dict.attributes[idx].type \in Range(DictTypes) \cup {"String"}
                /\ fn = "dictGetOrDefault" => block.args[4].type = Dict.attributes[idx].type

\* C4: a function given a block of zero rows returns a column of zero rows and
\* raises no error, whether the dictionary is loaded or not, and does not
\* resolve the dictionary (no getDictionary call).
C4_ZeroRows ==
    (Returned /\ block.rows = 0 /\ WellFormedCall) =>
        /\ err = "none"
        /\ Size(block.result) = 0
        /\ block.result.kind \in {"vector", "array"}
        /\ \A i \in 1..Len(calls) : calls[i].op # "getDictionary"

\* C4 for the functions that name their type, dictHas, dictGetHierarchy and
\* dictIsIn: the zero-row block is answered before the dictionary is resolved
C4_ZeroRowsTyped ==
    (Returned /\ block.rows = 0 /\ IsConstString(block.args[1]) /\ fn \notin TypeErased) =>
        /\ err = "none"
        /\ block.result = EmptyColumn(fn)
        /\ calls = <<>>

\* the order the claim gives the kinds: scalar keys, composite keys, range keys
Rank(kind) ==
    CASE kind \in Range(SimpleKinds) -> 1
      [] kind \in Range(ComplexKinds) -> 2
      [] kind \in Range(RangeKinds) -> 3

UnsupportedKind == "UNKNOWN_TYPE: Unsupported dictionary type"

\* the dispatcher of this evaluation ran (it made a probe)
Dispatched == probed # <<>> /\ pc \in {"done", "scan", "decide"}

\* C10: the dispatcher probes the kinds in the order scalar, composite, range,
\* each kind once, and stops at the first probe that matches the dictionary's
\* kind: one body runs at most, the one of that probe, and the call fails with
\* the unsupported-kind error exactly when no probe matched.
C10_Dispatcher ==
    Dispatched =>
        /\ \A i, j \in 1..Len(probed) :
              i < j => /\ Rank(probed[i].type) <= Rank(probed[j].type)
                       /\ probed[i].type # probed[j].type
        /\ \A i \in 1..Len(probed) - 1 : probed[i].type # Dict.kind
        /\ IF probed[Len(probed)].type = Dict.kind
           THEN entered = <<probed[Len(probed)]>> /\ err # UnsupportedKind
           ELSE entered = <<>> /\ err = UnsupportedKind /\ probed = Probes(Executor)

\* both outcomes happen: a range dictionary reached by dictGet after six failed
\* probes ...
C10_Witness ==
    /\ Dispatched
    /\ Len(probed) = 7
    /\ entered = <<Probe("executeDispatchRange", "RangeHashedDictionary")>>
    /\ err = "none"

\* ... and a kind no probe of the function matches
C10_WitnessUnsupported ==
    /\ Dispatched
    /\ fn = "dictHas"
    /\ Dict.kind = "RangeHashedDictionary"
    /\ err = UnsupportedKind
    /\ Len(probed) = 6

(***************************************************************************)
(* dictIsIn against dictGetHierarchy, over the same dictionary and ids.    *)
(***************************************************************************)
\* dictIsIn has answered for the ids dictGetHierarchy expanded before it
IsInAfterHierarchy ==
    fn = "dictIsIn" /\ pc = "done" /\ err = "none" /\ prev_result # NoColumn

\* C9: dictIsIn(child, ancestor) is 1 iff ancestor is in the chain that
\* dictGetHierarchy computed for child over the same parent relation; with
\* parent(100) = 10, parent(10) = 1, parent(1) = 0, dictIsIn(100, 10) is 1 and
\* dictIsIn(100, 99) is 0.
C9_IsInIffInChain ==
    IsInAfterHierarchy =>
        \A i \in 1..block.rows :
           (ValueAt(block.result, i) = 1)
              <=> (ValueAt(block.args[3], i) \in Range(ResultChain(prev_result, i)))

\* C9 where toParent(0) = 0: the chains of the batch are those of the rows
\* evaluated alone, and dictIsIn agrees with them
C9_IsInIffInChainSentinelFixed ==
    (IsInAfterHierarchy /\ Parent[0] = 0) =>
        /\ \A i \in 1..block.rows :
              (ValueAt(block.result, i) = 1)
                 <=> (ValueAt(block.args[3], i) \in Range(ResultChain(prev_result, i)))
        /\ \A i \in 1..block.rows :
              (ValueAt(block.args[2], i) = 100 /\ 100 \in DOMAIN Parent) =>
                 ValueAt(block.result, i) = IF ValueAt(block.args[3], i) \in {100, 10, 1}
                                            THEN 1 ELSE 0

\* dictIsIn(100, 10) = 1 over the example relation
C9_WitnessExample ==
    /\ IsInAfterHierarchy
    /\ 100 \in DOMAIN Parent
    /\ block.rows >= 2
    /\ ValueAt(block.args[2], 1) = 100
    /\ ValueAt(block.args[3], 1) = 10
    /\ ValueAt(block.result, 1) = 1

(***************************************************************************)
(* Properties of the hierarchy functions' capability test.                 *)
(***************************************************************************)
\* dictGetHierarchy or dictIsIn was dispatched to a dictionary of a kind it
\* probes, and the dictionary has no hierarchy
NoHierarchyCall ==
    /\ fn \in {"dictGetHierarchy", "dictIsIn"}
    /\ Dispatched
    /\ Dict.kind \in Range(SimpleKinds)
    /\ ~Dict.hasHierarchy

\* C11: dictGetHierarchy and dictIsIn over a dictionary whose kind matches but
\* which has no hierarchy fail with UNSUPPORTED_METHOD, before the key columns
\* are read (no id was copied into the walk) and before any toParent or isIn
\* call (no backend call, no result column).
C11_NoHierarchy ==
    NoHierarchyCall =>
        /\ pc = "done"
        /\ err = "UNSUPPORTED_METHOD"
        /\ entered # <<>>
        /\ BackendCalls = <<>>
        /\ n_toParent = 0
        /\ in_array = <<>>
        /\ block.result = NoColumn

\* dictGetHierarchy over a block of rows has failed on a HashedDictionary
\* without hierarchy
C11_Witness ==
    /\ NoHierarchyCall
    /\ fn = "dictGetHierarchy"
    /\ block.rows >= 2
    /\ IsVectorUInt64(block.args[2])
    /\ err = "UNSUPPORTED_METHOD"

(***************************************************************************)
(* Properties of the type-erased resolver.                                 *)
(***************************************************************************)
\* the indices of the first attribute of the dictionary with the given name
FirstMatch(attributes, name) ==
    {i \in 1..Len(attributes) :
        /\ attributes[i].name = name
        /\ \A j \in 1..(i - 1) : attributes[j].name # name}

\* the declared types the claim gives an executor: String and 13 scalar types
ExecutorTypes ==
    {"String", "UInt8", "UInt16", "UInt32", "UInt64", "Int8", "Int16", "Int32", "Int64",
     "Float32", "Float64", "Date", "DateTime", "UUID"}

\* getReturnTypeImpl is about to scan the attribute list: the arguments have
\* the types the function takes and the dictionary is loaded
ScansAttributes ==
    /\ pc = "resolve"
    /\ fn \in TypeErased
    /\ IsConstString(block.args[1])
    /\ IsConstString(block.args[2])
    /\ block.args[3].type \in {"UInt64", "Tuple"}
    /\ Len(block.args) = 4 => (fn = "dictGet" => IsIntegerUpTo64(block.args[4].type))
    /\ block.args[1].value \in DOMAIN dictionaries

\* C12: the resolver of dictGet / dictGetOrDefault takes the first attribute
\* whose name is the requested one, selects the executor of its declared type
\* and returns that type; it fails with BAD_ARGUMENTS (no such attribute) when
\* no name matches, with UNKNOWN_TYPE when the declared type has no executor,
\* and dictGetOrDefault with ILLEGAL_TYPE_OF_ARGUMENT when the default's type is
\* not the declared type.  A failed resolution selects nothing.
C12_Resolver ==
    [][(Resolve /\ ScansAttributes) =>
        LET returned == GetReturnTypeImpl(fn, dictionaries, block.args, impl).type
            match == FirstMatch(Dict.attributes, block.args[2].value)
        IN IF match = {}
           THEN err' = "BAD_ARGUMENTS" /\ impl' = impl /\ returned = "none"
           ELSE LET type == Dict.attributes[CHOOSE i \in match : TRUE].type IN
                IF type \notin ExecutorTypes
                THEN /\ err' = "UNKNOWN_TYPE: Unknown " \o fn \o " type"
                     /\ impl' = impl
                     /\ returned = "none"
                ELSE IF fn = "dictGetOrDefault" /\ block.args[4].type # type
                THEN err' = "ILLEGAL_TYPE_OF_ARGUMENT" /\ impl' = impl /\ returned = "none"
                ELSE /\ err' = "none"
                     /\ returned = type
                     /\ impl' = "dictGet" \o type
                                  \o (IF fn = "dictGetOrDefault" THEN "OrDefault" ELSE "")
                     /\ pc' = "start"]_vars

\* dictGetOrDefault resolved the String attribute, which is not the first of
\* the list, to the String executor
C12_Witness ==
    /\ fn = "dictGetOrDefault"
    /\ pc = "start"
    /\ block.args[2].value = "s"
    /\ block.args[4].type = "String"
    /\ impl = "dictGetStringOrDefault"

\* ... and every failure of the scan happens
C12_WitnessUnknownType ==
    /\ fn = "dictGet"
    /\ pc = "done"
    /\ block.rows > 0
    /\ block.args[2].value = "w"
    /\ err = "UNKNOWN_TYPE: Unknown dictGet type"
    /\ impl = "null"

(***************************************************************************)
(* Properties of the executor the type-erased functions hold.              *)
(***************************************************************************)
\* the block names a loaded dictionary and an attribute of it whose declared
\* type has an executor
NamesAttribute ==
    /\ IsConstString(block.args[1])
    /\ IsConstString(block.args[2])
    /\ block.args[1].value \in DOMAIN dictionaries
    /\ \E i \in FirstMatch(Dict.attributes, block.args[2].value) :
          Dict.attributes[i].type \in ExecutorTypes

\* the executor of the declared type of the attribute the block names
ExecutorOfBlock ==
    LET i == CHOOSE i \in FirstMatch(Dict.attributes, block.args[2].value) : TRUE IN
    "dictGet" \o Dict.attributes[i].type
        \o (IF fn = "dictGetOrDefault" THEN "OrDefault" ELSE "")

\* C13: whatever calls of getReturnTypeImpl and executeImpl one function
\* object has served, an executeImpl call delegates to the executor selected
\* for the declared type of the attribute that the block it evaluates names.
C13_CachedExecutor ==
    [][(DictGetNoType /\ NamesAttribute) => impl = ExecutorOfBlock]_vars

\* the first evaluation after the first resolution of an object does delegate
\* to the executor of the attribute its block names
C13_FirstEvaluation ==
    (fn \in TypeErased /\ pc = "start" /\ NamesAttribute) => impl = ExecutorOfBlock

(***************************************************************************)
(* Properties of getColumnDataAsPaddedPODArray.                            *)
(***************************************************************************)
\* executeDispatchRange ran and handed the accessor the array it got from
\* getColumnDataAsPaddedPODArray<UInt64> for the id column
AdaptedIds ==
    /\ pc = "done"
    /\ entered # <<>>
    /\ entered[1].method = "executeDispatchRange"
    /\ BackendCalls # <<>>

\* C14: the array getColumnDataAsPaddedPODArray returns for a column (a vector
\* of the target type, a constant of the target type, a column that needs the
\* conversion loop) has exactly as many elements as the column has rows.
C14_AdapterLength ==
    AdaptedIds => Len(BackendCalls[1].keys) = Size(block.args[3])

\* for a vector of the target type the array does have one element per row
C14_VectorLength ==
    (AdaptedIds /\ block.args[3].kind = "vector") =>
        Len(BackendCalls[1].keys) = Size(block.args[3])

\* for a constant of the target type the array is the one element the constant
\* wraps, whatever the row count
C14_ConstLength ==
    (AdaptedIds /\ IsConstUInt64(block.args[3])) => Len(BackendCalls[1].keys) = 1

(***************************************************************************)
(* Properties of the key and id column shapes the lookups take.            *)
(***************************************************************************)
\* the key column of the block: the second argument of dictHas, the third of
\* the gets
KeyColumn == IF fn = "dictHas" THEN block.args[2] ELSE block.args[3]

\* the functions that name their type: has, typed get, string get and their
\* get-or-default
LookupFamilies ==
    {"dictHas", "dictGetUInt64", "dictGetString", "dictGetUInt64OrDefault",
     "dictGetStringOrDefault"}

\* a lookup of a family was dispatched to the body of the given probe method
\* with as many arguments as the body takes
LookupEntered(method) ==
    /\ fn \in LookupFamilies
    /\ pc = "done"
    /\ entered # <<>>
    /\ entered[1].method = method
    /\ fn \in GetFunctions => Len(block.args) = 3

\* the composite-key body of a lookup ran over a constant tuple key
ConstantTupleKey ==
    /\ LookupEntered("executeDispatchComplex")
    /\ KeyColumn.kind = "const"
    /\ KeyColumn.type = "Tuple"

\* the lookup succeeded with one backend call, which was handed one key per row
MaterializedKeys ==
    /\ err = "none"
    /\ Len(BackendCalls) = 1
    /\ Len(BackendCalls[1].keys) = block.rows
    /\ \A i \in 1..block.rows : BackendCalls[1].keys[i] = KeyColumn.value

C15_GetsMaterialize == (ConstantTupleKey /\ fn # "dictHas") => MaterializedKeys

\* dictHas does not: the constant tuple fails the ColumnTuple test
C15_HasRejects ==
    (ConstantTupleKey /\ fn = "dictHas") => (err = "TYPE_MISMATCH" /\ BackendCalls = <<>>)

(***************************************************************************)
(* Properties of dictIsIn's choice of the backend entry point.             *)
(***************************************************************************)
\* dictIsIn was dispatched to a dictionary with a hierarchy
IsInEntered ==
    /\ fn = "dictIsIn"
    /\ pc = "done"
    /\ entered # <<>>
    /\ Dict.hasHierarchy

\* the entry point of the backend that takes the shapes of the two id columns
IsInEntryPoint(child, ancestor) ==
    CASE child.kind = "vector" /\ ancestor.kind = "vector" -> "isInVectorVector"
      [] child.kind = "vector" /\ ancestor.kind = "const" -> "isInVectorConstant"
      [] child.kind = "const" /\ ancestor.kind = "vector" -> "isInConstantVector"
      [] child.kind = "const" /\ ancestor.kind = "const" -> "isInConstantConstant"

\* C16: dictIsIn calls exactly one entry point of the backend, the one of the
\* shapes of its child and ancestor columns; with two constants the result is
\* a constant column whose size is the row count, otherwise a vector of one
\* flag per row.
C16_IsInShapes ==
    IsInEntered =>
        LET child == block.args[2]
            ancestor == block.args[3]
        IN /\ err = "none"
           /\ Len(BackendCalls) = 1
           /\ BackendCalls[1].op = IsInEntryPoint(child, ancestor)
           /\ block.result.type = "UInt8"
           /\ IF child.kind = "const" /\ ancestor.kind = "const"
              THEN /\ block.result.kind = "const"
                   /\ block.result.size = block.rows
                   /\ block.result.value \in {0, 1}
              ELSE /\ block.result.kind = "vector"
                   /\ Len(block.result.data) = block.rows
                   /\ \A i \in 1..block.rows : block.result.data[i] \in {0, 1}

\* two constants over a block of two rows: a constant result of size two
C16_Witness ==
    /\ IsInEntered
    /\ block.args[2].kind = "const"
    /\ block.args[3].kind = "const"
    /\ block.rows = 2
    /\ block.result.kind = "const"

\* ... and a constant child with a vector of ancestors: a vector result
C16_WitnessConstantVector ==
    /\ IsInEntered
    /\ block.args[2].kind = "const"
    /\ block.args[3].kind = "vector"
    /\ block.rows = 2
    /\ block.result.kind = "vector"

\* the scalar-key body of a lookup ran over a UInt64 id column, vector or
\* constant
ScalarIdLookup ==
    /\ LookupEntered("executeDispatch") \/ LookupEntered("executeDispatchSimple")
    /\ IsVectorUInt64(KeyColumn) \/ IsConstUInt64(KeyColumn)

\* the lookup succeeded with a result of the block's row count: a full column
\* for a vector of ids, for a constant id a constant (or the default column)
ShapedResult ==
    /\ err = "none"
    /\ Size(block.result) = block.rows
    /\ IsVectorUInt64(KeyColumn) => block.result.kind = "vector"
    /\ (IsConstUInt64(KeyColumn) /\ block.result.kind = "vector") =>
          (fn \in OrDefaultFunctions /\ block.result = block.args[4])

C17_ConstantIdBranches ==
    (ScalarIdLookup /\ fn \notin {"dictHas", "dictGetString"}) => ShapedResult

\* dictHas and dictGetString have the vector branch only
C17_VectorIdOnly ==
    (ScalarIdLookup /\ fn \in {"dictHas", "dictGetString"}) =>
        IF IsVectorUInt64(KeyColumn) THEN ShapedResult
        ELSE err = "ILLEGAL_COLUMN" /\ BackendCalls = <<>> /\ block.result = NoColumn

(***************************************************************************)
(* Properties of the argument count of dictGet<T>.                         *)
(***************************************************************************)
\* a typed get (called by name or through dictGet) was dispatched to the body
\* of the probe that matched the dictionary's kind
GetEntered ==
    /\ Executor \in GetFunctions
    /\ pc = "done"
    /\ entered # <<>>

\* the number of arguments the body of a kind takes: name, attribute, key, and
\* for a range dictionary the date
Arity(kind) == IF kind \in Range(RangeKinds) THEN 4 ELSE 3

ArityError == "NUMBER_OF_ARGUMENTS_DOESNT_MATCH"

\* C18: a typed get dispatched to a scalar-keyed or composite-keyed dictionary
\* fails with NUMBER_OF_ARGUMENTS_DOESNT_MATCH unless it has exactly 3
\* arguments, dispatched to a range dictionary unless it has exactly 4; with
\* the fitting number of arguments it raises no such error.
C18_Arity ==
    GetEntered => (err = ArityError <=> Len(block.args) # Arity(Dict.kind))

\* a get of three arguments over a range dictionary fails on the count
C18_Witness ==
    /\ GetEntered
    /\ Dict.kind = "RangeHashedDictionary"
    /\ Len(block.args) = 3
    /\ err = ArityError

\* ... as does a get of four arguments over a hashed dictionary ...
C18_WitnessScalar ==
    /\ GetEntered
    /\ Dict.kind = "HashedDictionary"
    /\ Len(block.args) = 4
    /\ err = ArityError

\* ... while four arguments fit the range dictionary
C18_WitnessFits ==
    /\ GetEntered
    /\ Dict.kind = "RangeHashedDictionary"
    /\ Len(block.args) = 4
    /\ err = "none"

(***************************************************************************)
(* The frame of an evaluation.                                             *)
(***************************************************************************)
\* C19: a call has no effect on its inputs: every step of getReturnTypeImpl
\* and executeImpl of every function, whether the call ends with a result or
\* with an error, leaves the argument columns of the block, its row count and
\* the dictionaries as they were; of the block only the result column is
\* assigned, and executeImpl does not touch the executor the object holds.
C19_Frame ==
    [][pc # "done" =>
          /\ block'.args = block.args
          /\ block'.rows = block.rows
          /\ dictionaries' = dictionaries
          /\ pc # "resolve" => impl' = impl]_vars

\* a walk over a vector of ids has called toParent and assigned its result
C19_Witness ==
    /\ fn = "dictGetHierarchy"
    /\ pc = "done"
    /\ err = "none"
    /\ IsVectorUInt64(block.args[2])
    /\ n_toParent > 0
    /\ block.result # NoColumn

\* ... and a call that failed after its dispatch left the block without result
C19_WitnessFailed ==
    /\ pc = "done"
    /\ err = "ILLEGAL_COLUMN"
    /\ entered # <<>>
    /\ block.result = NoColumn

(***************************************************************************)
(* The sentinel in the rounds of the hierarchy walk.                       *)
(***************************************************************************)
RECURSIVE ParentPower(_, _, _)
\* the id a row holds at the start of round j: toParent applied j times
ParentPower(p, id, j) == IF j = 0 THEN id ELSE ParentPower(p, p[id], j - 1)

\* row i held the sentinel at the start of this round or of a round before
\* (n_toParent rounds are over when the scan of a round starts)
ReachedSentinel(i) ==
    \E j \in 0..n_toParent : ParentPower(Parent, InputId(i), j) = 0

\* C20: a row whose id is 0 at the start of a round has stopped for good: the
\* scan of that round and of every later round appends nothing to its chain,
\* whatever toParent answers for the row while other rows keep the walk going.
C20_SentinelStops ==
    [][Scan => \A i \in 1..Len(hierarchies) :
                  ReachedSentinel(i) => hierarchies'[i] = hierarchies[i]]_vars

\* the scan of the round in which a row holds 0 appends nothing to the row ...
C20_SentinelSkipped ==
    [][Scan => \A i \in 1..Len(hierarchies) :
                  in_array[i] = 0 => hierarchies'[i] = hierarchies[i]]_vars

\* ... and the row stays stopped when the backend answers 0 for the id 0
C20_SentinelFixed ==
    [][(Scan /\ Parent[0] = 0) =>
          \A i \in 1..Len(hierarchies) :
              ReachedSentinel(i) => hierarchies'[i] = hierarchies[i]]_vars

(***************************************************************************)
(* The chain of a row against the chain of the same id evaluated alone.    *)
(***************************************************************************)
\* the chain dictGetHierarchy computes for id in a batch of one row
AloneChain(id) == GetHierarchies(Dict, <<id>>, <<<<>>>>)[1]

\* C21: the chain of a row depends on the row's id and the parent relation
\* only: in any batch, under any parent relation (toParent(0) # 0 included),
\* it is the chain the same id gets when evaluated alone in a batch of one row.
C21_BatchIndependence ==
    HierarchyDone =>
        \A i \in 1..block.rows : ResultChain(block.result, i) = AloneChain(InputId(i))

\* the walk of a batch of one row and of a constant id is the loop run alone
C21_OneRow ==
    (HierarchyDone /\ (block.rows = 1 \/ block.args[2].kind = "const")) =>
        \A i \in 1..block.rows : ResultChain(block.result, i) = AloneChain(InputId(i))

\* with toParent(0) = 0 the rows of a batch do not influence each other
C21_SentinelFixed ==
    (HierarchyDone /\ Parent[0] = 0) =>
        \A i \in 1..block.rows : ResultChain(block.result, i) = AloneChain(InputId(i))

(***************************************************************************)
(* The chain over a parent relation with a cycle.                          *)
(***************************************************************************)
\* some id comes back to itself along p; 0 answering 0 is the sentinel, no cycle
HasCycle(p) ==
    \E k \in DOMAIN p : \E j \in 1..Cardinality(DOMAIN p) :
        /\ ParentPower(p, k, j) = k
        /\ ~(k = 0 /\ p[0] = 0)

\* every row's chain is id, parent(id), ... cut before the first 0 and before
\* the first id that is already in it
TruncatedChains ==
    \A i \in 1..block.rows :
        ResultChain(block.result, i) = ChainUpTo(Parent, InputId(i), {})

\* C22: over a parent relation with a cycle the chain of a row is exactly the
\* longest prefix of id, parent(id), parent(parent(id)), ... without 0 and
\* without a repeated id: it stops at the first repeated ancestor and nothing
\* follows.
C22_CycleTruncation == (HierarchyDone /\ HasCycle(Parent)) => TruncatedChains

\* it is so for a cycle that the sentinel is not part of (toParent(0) = 0) ...
C22_SentinelFixed ==
    (HierarchyDone /\ HasCycle(Parent) /\ Parent[0] = 0) => TruncatedChains

\* ... and for every relation when the row is alone in its batch
C22_OneRow ==
    (HierarchyDone /\ (block.rows = 1 \/ block.args[2].kind = "const")) => TruncatedChains

(***************************************************************************)
(* The flattened result of the hierarchy walk.                             *)
(***************************************************************************)
RECURSIVE SumOfLengths(_, _)
\* the lengths of the chains of rows 1..n, added up
SumOfLengths(hs, n) == IF n = 0 THEN 0 ELSE SumOfLengths(hs, n - 1) + Len(hs[n])

\* the walk over a vector of ids has assigned its array column
FlattenedDone == HierarchyDone /\ IsVectorUInt64(block.args[2])

\* C23: the array column agrees with the chains of the rows: offsets has one
\* entry per row and never decreases, offsets[i] is the sum of the lengths of
\* the chains up to row i, the flat buffer holds total_count elements (what
\* was reserved), and the chain of row i is the slice of the buffer that ends
\* at offsets[i] and starts after offsets[i - 1].
C23_Flattened ==
    FlattenedDone =>
        LET data == block.result.data
            offsets == block.result.offsets
        IN /\ Len(offsets) = block.rows
           /\ \A i \in 1..Len(offsets) - 1 : offsets[i] <= offsets[i + 1]
           /\ \A i \in 1..Len(offsets) : offsets[i] = SumOfLengths(hierarchies, i)
           /\ Len(data) = total_count
           /\ \A i \in 1..Len(offsets) :
                 LET from == IF i = 1 THEN 0 ELSE offsets[i - 1] IN
                 /\ offsets[i] - from = Len(hierarchies[i])
                 /\ \A k \in 1..Len(hierarchies[i]) : data[from + k] = hierarchies[i][k]

\* two rows with chains of their own
C23_Witness ==
    /\ FlattenedDone
    /\ block.rows = 2
    /\ Len(hierarchies[1]) = 2
    /\ Len(hierarchies[2]) = 1
    /\ total_count = 3

\* the counter is the number of stored ids in every round of the walk
C23_TotalCount ==
    (fn = "dictGetHierarchy" /\ pc \in {"scan", "decide", "done"}) =>
        total_count = SumOfLengths(hierarchies, Len(hierarchies))

(***************************************************************************)
(* The toParent calls of the hierarchy walk.                               *)
(***************************************************************************)
\* the step is the for loop of a round, and some row appended an id in it
RoundAppended ==
    /\ pc = "scan"
    /\ pc' = "decide"
    /\ \E i \in 1..Len(hierarchies) : hierarchies'[i] # hierarchies[i]

\* the step is the for loop of a round in which no row was active
RoundIdle ==
    /\ pc = "scan"
    /\ pc' = "decide"
    /\ hierarchies' = hierarchies

\* C24: a bulk toParent call is issued only after a round in which a row
\* appended an id, and none after the first round without an active row: the
\* round that appends nothing is followed by the break.  So the number of
\* toParent calls never exceeds the number of emitted chain elements, and a
\* batch of zero ids makes no toParent call.
C24_ToParentCalls ==
    [][fn = "dictGetHierarchy" =>
        /\ RoundAppended => (~all_zeroes' /\ total_count' > total_count)
        /\ RoundIdle => (all_zeroes' /\ total_count' = total_count)
        /\ n_toParent' # n_toParent =>
              (pc = "decide" /\ ~all_zeroes /\ n_toParent' = n_toParent + 1)
        /\ (pc = "decide" /\ all_zeroes) => (pc' = "done" /\ n_toParent' = n_toParent)
        /\ pc = "done" => n_toParent' = n_toParent
        /\ n_toParent' <= total_count'
        /\ (\A i \in 1..block.rows : InputId(i) = 0) => n_toParent' = 0]_vars

\* a finished walk that made two calls for three emitted ids
C24_Witness ==
    /\ HierarchyDone
    /\ n_toParent = 2
    /\ total_count = 3

\* a finished walk over a batch of zero ids
C24_WitnessZeroes ==
    /\ HierarchyDone
    /\ block.rows = 2
    /\ \A i \in 1..block.rows : InputId(i) = 0
    /\ n_toParent = 0

\* a finished walk whose last round met a repeated id and appended nothing
C24_WitnessLoop ==
    /\ HierarchyDone
    /\ \E i \in 1..Len(in_array) : in_array[i] # 0
    /\ n_toParent = total_count

(***************************************************************************)
(* The order of the steps of executeImpl.                                  *)
(***************************************************************************)
\* the step is an executeImpl
ExecuteStep == pc = "start" /\ pc' # "start"

\* the calls the step made
NewCalls == SubSeq(calls', Len(calls) + 1, Len(calls'))

\* the step resolved no dictionary, probed no backend kind and entered no
\* dispatch body
StoppedEarly == NewCalls = <<>> /\ probed' = <<>> /\ entered' = <<>>

\* C25: every executeImpl checks the dictionary name first, then the row
\* count, then resolves the dictionary.  A block whose name is not a constant
\* string fails with the non-constant-argument error whatever its row count;
\* a zero-row block with a constant name returns its empty column without
\* resolving the dictionary, dispatching or validating anything; any other
\* block starts with getDictionary.
C25_StepOrder ==
    [][ExecuteStep =>
        LET name == block.args[1] IN
        /\ ~IsConstString(name) =>
              (err' = "ILLEGAL_COLUMN" /\ StoppedEarly /\ block' = block)
        /\ (IsConstString(name) /\ block.rows = 0) =>
              /\ err' = "none"
              /\ StoppedEarly
              /\ pc' = "done"
              /\ block'.result # NoColumn
              /\ Size(block'.result) = 0
        /\ (IsConstString(name) /\ block.rows > 0) =>
              /\ NewCalls # <<>>
              /\ NewCalls[1] = Call("getDictionary", name.value)
              /\ (name.value \notin DOMAIN dictionaries) =>
                    (err' = "DICTIONARIES_WAS_NOT_LOADED" /\ Len(NewCalls) = 1
                     /\ probed' = <<>> /\ entered' = <<>>)]_vars

\* a zero-row block whose name is a column failed on the name
C25_WitnessName ==
    /\ pc = "done"
    /\ fn = "dictGetHierarchy"
    /\ block.rows = 0
    /\ ~IsConstString(block.args[1])
    /\ err = "ILLEGAL_COLUMN"

\* a zero-row block with a constant name, its dictionary not loaded and its
\* key a constant tuple, returned an empty column
C25_Witness ==
    /\ pc = "done"
    /\ fn = "dictGetUInt64"
    /\ block.rows = 0
    /\ IsConstString(block.args[1])
    /\ dictionaries = EmptyRegistry
    /\ block.args[3].type = "Tuple"
    /\ err = "none"
    /\ calls = <<>>
    /\ block.result # NoColumn

(***************************************************************************)
(* The sequences of a range get.                                           *)
(***************************************************************************)
\* a range get that called its accessor and returned
RangeGetDone == AdaptedIds /\ err = "none"

\* the column is a constant of the type the accessor takes: its one value is
\* what is handed over
SingleValue(col, type) == col.kind = "const" /\ col.type = type

\* the length the claim gives the sequence made of a column
HandedLength(col, type) == IF SingleValue(col, type) THEN 1 ELSE block.rows

\* C26: in a range get the id sequence and the point-in-time sequence handed
\* to the accessor have one element per row of the block, unless the column is
\* a constant, which is handed over as its single value; the output column
\* has one element per row of the block.
C26_RangeLengths ==
    RangeGetDone =>
        /\ Len(BackendCalls[1].keys) = HandedLength(block.args[3], "UInt64")
        /\ Len(BackendCalls[1].dates) = HandedLength(block.args[4], "Int64")
        /\ Len(block.result.data) = block.rows

\* with a vector of ids the three lengths are the row count, whatever the
\* point-in-time column and the attribute type
C26_VectorIds ==
    (RangeGetDone /\ block.args[3].kind = "vector") =>
        /\ Len(BackendCalls[1].keys) = block.rows
        /\ Len(BackendCalls[1].dates) = HandedLength(block.args[4], "Int64")
        /\ Len(block.result.data) = block.rows

\* a numeric output buffer is allocated with the row count of the id column
C26_NumericBuffer ==
    (RangeGetDone /\ block.result.type # "String") =>
        /\ BackendCalls[1].out = block.rows
        /\ Len(block.result.data) = block.rows

\* the string output column starts empty and ends with one string per id handed
C26_StringBuffer ==
    (RangeGetDone /\ block.result.type = "String") =>
        /\ BackendCalls[1].out = 0
        /\ Len(block.result.data) = Len(BackendCalls[1].keys)

\* a constant point-in-time column of a narrower type is handed over in full
C26_WitnessConverted ==
    /\ RangeGetDone
    /\ block.rows = 2
    /\ block.args[4] = Const("UInt16", 1, 2)
    /\ Len(BackendCalls[1].dates) = 2

\* a constant point-in-time column of Int64 is handed over as one element
C26_WitnessConstantDate ==
    /\ RangeGetDone
    /\ block.rows = 2
    /\ block.args[3].kind = "vector"
    /\ block.args[4] = Const("Int64", 1, 2)
    /\ Len(BackendCalls[1].dates) = 1
    /\ Len(block.result.data) = 2

(***************************************************************************)
(* The backend kinds each function accepts.                                *)
(***************************************************************************)
\* the kinds the function serves
AcceptedKinds(f) ==
    IF f \in GetFunctions
    THEN Range(SimpleKinds) \cup Range(ComplexKinds) \cup Range(RangeKinds)
    ELSE IF f = "dictHas" \/ f \in OrDefaultFunctions
    THEN Range(SimpleKinds) \cup Range(ComplexKinds)
    ELSE Range(SimpleKinds)

\* C27: a function whose dispatcher ran enters a dispatch body exactly when
\* the kind of the dictionary is one it accepts: scalar, composite and range
\* for the typed and string gets, scalar and composite for has and the
\* get-or-defaults, scalar only for getHierarchy and isAncestor.  Any other
\* kind is rejected with the unsupported-kind error, with no body entered, no
\* backend call made, no hierarchy capability tested and no result assigned.
C27_AcceptedKinds ==
    Dispatched =>
        IF Dict.kind \in AcceptedKinds(Executor)
        THEN /\ err # UnsupportedKind
             /\ Len(entered) = 1
             /\ entered[1].type = Dict.kind
        ELSE /\ err = UnsupportedKind
             /\ entered = <<>>
             /\ BackendCalls = <<>>
             /\ block.result = NoColumn
             /\ pc = "done"

\* getHierarchy over a composite dictionary without a hierarchy: the kind is
\* what is reported
C27_Witness ==
    /\ Dispatched
    /\ fn = "dictGetHierarchy"
    /\ Dict.kind \in Range(ComplexKinds)
    /\ ~Dict.hasHierarchy
    /\ err = UnsupportedKind

\* a get-or-default over a range dictionary is rejected
C27_WitnessOrDefault ==
    /\ Dispatched
    /\ fn \in OrDefaultFunctions
    /\ Dict.kind \in Range(RangeKinds)
    /\ err = UnsupportedKind

\* a string get over a range dictionary is served
C27_WitnessRange ==
    /\ Dispatched
    /\ fn = "dictGetString"
    /\ Dict.kind \in Range(RangeKinds)
    /\ err = "none"
    /\ BackendCalls # <<>>

(***************************************************************************)
(* The cached executor across failed resolutions.                          *)
(***************************************************************************)
\* the step is a getReturnTypeImpl that threw
ResolutionFailed == pc = "resolve" /\ pc' = "done" /\ err' # "none"

\* the step is a getReturnTypeImpl that returned a type
ResolutionSucceeded == pc = "resolve" /\ pc' = "start" /\ err' = "none"

\* C29: a getReturnTypeImpl that throws leaves impl as it was: unset if it was
\* unset, otherwise the executor the last successful resolution selected, since
\* impl changes in a successful resolution only; the evaluation that follows
\* runs that executor: its outcome is the outcome of impl's executeImpl over
\* the block.
C29_FailedResolution ==
    [][(fn \in TypeErased) =>
        /\ ResolutionFailed => impl' = impl
        /\ impl' # impl => (ResolutionSucceeded /\ impl' = ExecutorOfBlock)
        /\ ExecuteStep =>
              (LET e == ExecuteImpl(impl, dictionaries, block) IN
               /\ impl # "null"
               /\ impl' = impl
               /\ err' = e.out.err
               /\ probed' = e.probed
               /\ entered' = e.entered)]_vars

\* a resolution failed on the attribute name while the object held an executor
C29_Witness ==
    /\ fn \in TypeErased
    /\ pc = "done"
    /\ err = "BAD_ARGUMENTS"
    /\ probed = <<>>
    /\ block.args[2].value = "zz"
    /\ impl = "dictGetString"

\* a resolution failed before any had succeeded
C29_WitnessUnset ==
    /\ fn \in TypeErased
    /\ pc = "done"
    /\ err = "DICTIONARIES_WAS_NOT_LOADED"
    /\ impl = "null"

\* a get-or-default resolution failed on the type of the default while the
\* object held an executor
C29_WitnessDefault ==
    /\ fn = "dictGetOrDefault"
    /\ pc = "done"
    /\ err = "ILLEGAL_TYPE_OF_ARGUMENT"
    /\ calls # <<>>
    /\ impl = "dictGetUInt64OrDefault"

\* the block whose resolution fails was evaluated by the executor held
C29_WitnessEvaluated ==
    /\ fn \in TypeErased
    /\ pc = "done"
    /\ entered # <<>>
    /\ block.args[2].value = "zz"
    /\ impl = "dictGetString"

(***************************************************************************)
(* The cached executor under concurrent calls.                             *)
(***************************************************************************)
\* the step is the return or throw of the getReturnTypeImpl of thread t
ResolveReturns(t) == Resolving(t) /\ threads'[t].state = "idle"

\* the step is the return or throw of the executeImpl of thread t
EvaluateReturns(t) == Evaluating(t) /\ threads'[t].state = "idle"

\* no thread is inside getReturnTypeImpl
NoResolution == \A u \in Threads : ~Resolving(u)

\* the object holds the executor a resolution selected
AlreadyResolved == impl \notin {"null", Torn}

\* C28: impl is written by getReturnTypeImpl only and executeImpl only reads
\* it.  While no getReturnTypeImpl is running, evaluations on the resolved
\* object, however many overlap, leave impl as it is and each delegates to the
\* executor impl holds; the read of an evaluation races with a write only when
\* a getReturnTypeImpl of another thread overlaps the evaluation.  (The object
\* is resolved when impl was assigned by a resolution that raced with none.)
C28_CacheAccess ==
    [][/\ impl' # impl => \E t \in Threads : ResolveReturns(t)
       /\ \A t \in Threads :
             /\ EvaluateReturns(t) => impl' = impl
             /\ (EvaluateReturns(t) /\ AlreadyResolved /\ ~threads[t].raced
                 /\ NoResolution) =>
                   (threads'[t].executor = impl /\ threads'[t].err # "undefined")
             /\ (Evaluating(t) /\ threads'[t].raced /\ ~threads[t].raced) =>
                   \E u \in Threads \ {t} : ResolveReturns(u)
             /\ (EvaluateReturns(t) /\ threads'[t].executor # impl) =>
                   (threads[t].raced \/ ~NoResolution)]_vars

\* two evaluations overlap on the resolved object and no resolution runs
C28_Witness ==
    /\ pc = "threads"
    /\ impl = "dictGetString"
    /\ \A t \in Threads : Evaluating(t) /\ ~threads[t].raced
    /\ threads[1].args # threads[2].args

\* an evaluation that overlapped an assignment read neither value
C28_WitnessRace ==
    /\ pc = "threads"
    /\ \E t \in Threads :
          /\ threads[t].state = "idle"
          /\ threads[t].executor = Torn
          /\ threads[t].err = "undefined"

(***************************************************************************)
(* The result column of an evaluation that fails.                          *)
(***************************************************************************)
\* the step ends an evaluation with an error
EvaluationFails ==
    /\ pc \in {"start", "scan", "decide"}
    /\ pc' = "done"
    /\ err' # "none"

\* C30: an evaluation that fails, whatever the function and the error, has
\* not assigned the result column: the block is after the failing step what
\* it was on entry, and no step before the failure had written the result.
C30_NoPartialResult ==
    [][/\ EvaluationFails => (block' = block /\ block.result = NoColumn)
       /\ (pc' = "done" /\ err' # "none") => block'.result = NoColumn
       /\ (pc \in {"start", "scan", "decide"} /\ block'.result # block.result) =>
             (pc' = "done" /\ err' = "none")]_vars

\* a failed evaluation of each kind the claim lists
C30_Witness ==
    /\ pc = "done"
    /\ fn = "dictGetHierarchy"
    /\ err = "UNSUPPORTED_METHOD"
    /\ block.rows = 2
    /\ block.result = NoColumn

C30_WitnessKind ==
    /\ pc = "done"
    /\ fn = "dictIsIn"
    /\ err = UnsupportedKind
    /\ block.result = NoColumn

C30_WitnessArity ==
    /\ pc = "done"
    /\ fn = "dictGetUInt64"
    /\ err = "NUMBER_OF_ARGUMENTS_DOESNT_MATCH"
    /\ block.result = NoColumn

C30_WitnessKeyShape ==
    /\ pc = "done"
    /\ fn \in OrDefaultFunctions
    /\ entered # <<>>
    /\ err \in {"ILLEGAL_COLUMN", "TYPE_MISMATCH"}
    /\ block.result = NoColumn

====
